---- MODULE Spec2Model ----
(***************************************************************************)
(* Controller-leadership service of the mpk_mini signaling server.         *)
(*                                                                         *)
(* Modelled code:                                                          *)
(*   routes/api/controller/manager.ts  (src/unnamed/part_002:2043-2251)    *)
(*   routes/api/controller/lock.ts     (src/unnamed/part_002:1785-2042)    *)
(*   routes/api/controller/clear.ts    (src/unnamed/part_001:155-226)      *)
(*   routes/api/controller/status.ts   (src/unnamed/part_003)              *)
(*   routes/api/signal.ts              (src/unnamed/part_002:682-1783)     *)
(*                                                                         *)
(* Every request handler is a process.  One step of a process is one       *)
(* awaited KV operation together with the synchronous code that follows    *)
(* it up to the next await.  Date.now() is the variable now.               *)
(***************************************************************************)
EXTENDS Integers, Sequences, FiniteSets, TLC

\* ---------------------------------------------------------------- bounds
\* wall clock: starts at StartMs (Date.now() is never 0) and advances in
\* steps of TickMs up to MaxNow
StartMs == 1
MaxNow == 40003
TickMs == 20000
\* number of notification ids crypto.randomUUID() may hand out
MaxUuid == 2

\* ------------------------------------------------------ program constants
\* signal.ts: the grace period of a newly registered client
CLIENT_GRACE_PERIOD_MS == 15000
HEARTBEAT_TIMEOUT_MS == 30000
NOTIFICATION_MAX_AGE_MS == 30000

\* ------------------------------------------------------------ value sets
\* a string id is the tuple of its parts, so that a prefix can be stripped
Null == <<>>
CONTROLLER_PREFIX == "controller-"
SessionIds == {<<"a">>, <<"b">>}
SynthIds == {<<"synth-", "x">>}
ControllerIds == {<<"controller-", "c">>}
\* the controllers of the client registry: a second one, so that two
\* instances can each hold a controller
RegistryControllers == ControllerIds \cup {<<"controller-", "d">>}
\* every id a socket may register under
ClientIds == SynthIds \cup {<<"synth-", "y">>} \cup RegistryControllers
Instances == {"i1", "i2"}
\* the WebSockets told apart where two of them carry one id
Sockets == {"s1", "s2"}
Procs == {"p1", "p2"}
\* a key that holds no value (kv.get(...).value === null)
NoRec == [absent |-> TRUE]
\* no inbound frame handled yet
NoFrame ==
  [n |-> 0, verb |-> "none", inst |-> "none", id |-> <<>>, replies |-> <<>>]
\* the value of activeConnections.get(id) and of pollingIntervals.get(id)
\* for an id that is not a key
NoSocket == "none"
\* a WebSocket that was not opened yet. clientId is the variable of the
\* handler closure; reg and closing are the positions of the register
\* handler and of the close handler; id, isReconnect and existing are the
\* locals of registerConnection, replaced the socket it closed; code is the
\* code the socket was closed with by the server (0: not closed by it);
\* refresh is the position of the lastSeen refresh of a frame in flight,
\* key the id whose connection key it computed and seen the record it read.
NoSocketYet ==
  [state |-> "unopened", inst |-> "i1", clientId |-> <<>>, reg |-> "idle",
   id |-> <<>>, isReconnect |-> FALSE, existing |-> NoRec,
   replaced |-> NoSocket, closing |-> "idle", code |-> 0,
   refresh |-> "idle", key |-> <<>>, seen |-> NoRec]

VARIABLES
  now,                 \* Date.now()
  kvActive,            \* KV ["webrtc","controller","active"]        (manager.ts)
  kvNotification,      \* KV ["webrtc","controller","notification"]  (manager.ts)
  kvLock,              \* KV ["webrtc:controller:lock"]              (lock.ts, clear.ts)
  kvLegacyActive,      \* KV ["webrtc","active_controller"]          (status.ts, clear.ts)
  kvLegacyNotification,\* KV ["webrtc","controller_change_notification"] (status.ts)
  nextUuid,            \* the next value of crypto.randomUUID()
  published,           \* history: the notificationIds written to kvNotification
  proc,                \* the request handlers in flight
  moduleInitialized,   \* signal.ts, per instance: the notification poller runs
  lastProcessedNotificationId, \* signal.ts, per instance (0 is null)
  activeConnections,   \* signal.ts, per instance: ids with an OPEN socket
  received,            \* per client id: the frames its socket was sent
  attachedAt,          \* history, per synth id: nextUuid when it was attached
  notOpen,             \* signal.ts, per instance: ids in activeConnections
                       \* whose socket has readyState # OPEN
  kvMessages,          \* KV ["webrtc","messages",target,ulid]: the queues
  nextMsg,             \* history: the number of the next inbound envelope
  drain,               \* the runs of processMessages in flight
  relayLog,            \* history: how each inbound envelope was handled
  kvConnections,       \* KV ["webrtc","connections",id]: the ClientRecords
  kvControllers,       \* KV ["webrtc","controllers",id]: controller directory
  activeControllers,   \* signal.ts, per instance: the Set activeControllers
  activeWebRTCConnections,  \* signal.ts, per instance: controller id -> the
                       \* synth ids it reported
  sweep,               \* the run of cleanupBasedOnWebRTCConnections
  removed,             \* history: the records the reaper has deleted
  nextReg,             \* history: the number of the next registerConnection
  handled,             \* history: the last register, unknown or malformed
                       \* frame handled, and what its handler sent back
  lastOp,              \* history, per id: the last of registerConnection and
                       \* unregisterConnection that ran for it
  sweepTimers,         \* the pending setTimeout callbacks of controller-activate
  pollingIntervals,    \* signal.ts, per instance: the keys of pollingIntervals
  sock,                \* the WebSockets: instance, readyState, the clientId of
                       \* the handler closure, the handlers in flight
  socketOf,            \* signal.ts, per instance: the socket activeConnections
                       \* holds for an id
  timerOf              \* signal.ts, per instance: the socket the polling timer
                       \* of an id sends to

vars == <<now, kvActive, kvNotification, kvLock, kvLegacyActive,
          kvLegacyNotification, nextUuid, published, proc, moduleInitialized,
          lastProcessedNotificationId, activeConnections, received,
          attachedAt, notOpen, kvMessages, nextMsg, drain, relayLog,
          kvConnections, kvControllers, activeControllers,
          activeWebRTCConnections, sweep, removed, nextReg, handled,
          lastOp, sweepTimers, pollingIntervals, sock, socketOf, timerOf>>

\* the frames handled, the timers and the sockets
sockVars == <<handled, lastOp, sweepTimers, pollingIntervals, sock, socketOf,
              timerOf>>

\* the state of the client registry and of the reaper
regVars == <<kvConnections, kvControllers, activeControllers,
             activeWebRTCConnections, sweep, removed, nextReg>>

\* the state of the relay and of the message queues
extVars == <<notOpen, kvMessages, nextMsg, drain, relayLog>>

sigVars == <<moduleInitialized, lastProcessedNotificationId,
             activeConnections, received, attachedAt>>

kvVars == <<kvActive, kvNotification, kvLock, kvLegacyActive,
            kvLegacyNotification, nextUuid, published>>

\* ------------------------------------------------------- pure functions

\* manager.ts getActiveController: now - result.value.timestamp > HEARTBEAT_TIMEOUT_MS
Expired(rec, t) == t - rec.timestamp > HEARTBEAT_TIMEOUT_MS

\* a record that is present and not expired at time t
Live(rec, t) == rec # NoRec /\ ~Expired(rec, t)

\* manager.ts setActiveController, new record (metadata is the constant
\* {clientType: "controller"} and is left out)
ControllerRecord(controllerId, t, instanceId) ==
  [id |-> controllerId, timestamp |-> t, instanceId |-> instanceId]

\* faulty variant: the refresh rebuilds the record instead of spreading current
RefreshedRecord_Rebuilt(current, t) ==
  [id |-> current.id, timestamp |-> t, instanceId |-> "local"]

\* manager.ts setActiveController, same id: {...current, timestamp: now}
RefreshedRecord(current, t) == [current EXCEPT !.timestamp = t]

\* status.ts setActiveController writes {id, timestamp} in both branches
LegacyRecord(controllerId, t) == [id |-> controllerId, timestamp |-> t]

\* faulty variant: the notification always announces "no controller"
Notification_AlwaysNull(controllerId, t, notificationId) ==
  [controllerId |-> Null, timestamp |-> t, notificationId |-> notificationId]

\* createControllerChangeNotification: the stored value
Notification(controllerId, t, notificationId) ==
  [controllerId |-> controllerId, timestamp |-> t,
   notificationId |-> notificationId]

\* faulty variant: the rejection of a non-leader's heartbeat is missing
SetActiveBranch_NoReject(current, controllerId, isHeartbeat) ==
  IF current # NoRec /\ current.id = controllerId THEN "refresh" ELSE "change"

\* the three outcomes of setActiveController after it has read current
SetActiveBranch(current, controllerId, isHeartbeat) ==
  IF current # NoRec /\ current.id = controllerId THEN "refresh"
  ELSE IF isHeartbeat /\ current # NoRec /\ current.id # controllerId
       THEN "reject"
       ELSE "change"

\* clearActiveController: !( !current || current.id !== controllerId )
ClearAllowed(current, controllerId) ==
  current # NoRec /\ current.id = controllerId

\* clear.ts GET: adminMode !== "true" is answered 401
AdminAllowed(adminMode) == adminMode = "true"

\* activeController?.id || null
IdOf(rec) == IF rec = NoRec THEN Null ELSE rec.id

\* manager.ts standardizeControllerId
standardizeControllerId(id) ==
  IF Len(id) > 0 /\ Head(id) = CONTROLLER_PREFIX THEN Tail(id) ELSE id

\* ---------------------------------------------------------- processes

Resp0 ==
  [status |-> 0, success |-> FALSE, changed |-> FALSE, isActive |-> FALSE,
   activeController |-> Null, locked |-> FALSE, consistent |-> FALSE]

IdleProc ==
  [op |-> "idle", pc |-> "idle", ret |-> "none", id |-> Null, hb |-> FALSE,
   inst |-> "i1", cur |-> NoRec, tnow |-> 0, nested |-> FALSE,
   expId |-> Null, changed |-> FALSE, emitted |-> 0, mode |-> "none",
   pre |-> NoRec, resp |-> Resp0]

\* history, kept by a handler until it has answered: the KV as it was when
\* the request arrived
Snapshot ==
  [active |-> kvActive, notification |-> kvNotification,
   legacyActive |-> kvLegacyActive,
   legacyNotification |-> kvLegacyNotification,
   published |-> published, nextUuid |-> nextUuid, now |-> now]

Free(p) == proc[p].pc = "idle"
AllFree == \A p \in Procs : Free(p)

\* a handler that starts: op, bound id, flags, first pc; hist tells whether
\* the history of the request is kept
Begin(p, hist, op, i, id, hb, mode, pc, ret) ==
  proc' = [proc EXCEPT ![p] =
    [IdleProc EXCEPT !.op = op, !.pc = pc, !.ret = ret, !.id = id,
                     !.hb = hb, !.inst = i, !.mode = mode, !.tnow = now,
                     !.pre = IF hist THEN Snapshot ELSE NoRec]]

\* a handler that answers: only op, inputs and the response are kept
Finish(r, resp) ==
  [IdleProc EXCEPT !.op = r.op, !.pc = "done", !.id = r.id, !.hb = r.hb,
                   !.inst = r.inst, !.mode = r.mode, !.changed = r.changed,
                   !.emitted = r.emitted, !.pre = r.pre, !.resp = resp]

Set(p, r) == proc' = [proc EXCEPT ![p] = [r EXCEPT !.tnow = now]]


\* createControllerChangeNotification (manager.ts): kv.set of the notification
\* key with a fresh notificationId; timestamp is the Date.now() taken at call
Publish(controllerId, t) ==
  /\ kvNotification' = Notification(controllerId, t, nextUuid)
  /\ nextUuid' = nextUuid + 1
  /\ published' = published \cup {nextUuid}

\* createControllerChangeNotification (status.ts): same, under the legacy key
LegacyPublish(controllerId, t) ==
  /\ kvLegacyNotification' = Notification(controllerId, t, nextUuid)
  /\ nextUuid' = nextUuid + 1
  /\ UNCHANGED published

\* lock.ts POST response
LockPostResponse(r, activeController) ==
  [Resp0 EXCEPT !.status = 200, !.success = TRUE,
                !.isActive = (IdOf(activeController) = r.id),
                !.activeController = IdOf(activeController),
                !.changed = r.changed]

\* lock.ts GET response: the health report, or the lock status
LockGetResponse(r, lock) ==
  IF r.mode = "health"
  THEN [Resp0 EXCEPT !.status = 200,
          !.consistent = (lock = NoRec \/ r.cur = NoRec
                          \/ lock.userId = r.cur.id),
          !.activeController = IdOf(r.cur)]
  ELSE [Resp0 EXCEPT !.status = 200, !.success = TRUE,
          !.locked = (r.cur # NoRec),
          !.isActive = (r.cur # NoRec /\ r.cur.id = r.id),
          !.activeController = IdOf(r.cur)]

\* status.ts GET response
StatusGetResponse(activeController) ==
  [Resp0 EXCEPT !.status = 200, !.activeController = IdOf(activeController)]

\* The synchronous code that runs when manager.getActiveController() returns
\* value c to its caller, up to the caller's next await.
AfterGet(r, c) ==
  CASE r.ret = "sa" ->
         LET b == SetActiveBranch(c, r.id, r.hb) IN
         IF b = "refresh" THEN [r EXCEPT !.cur = c, !.pc = "sa_refresh"]
         ELSE IF b = "reject"
              THEN [r EXCEPT !.cur = NoRec, !.changed = FALSE, !.pc = "lp_lock"]
              ELSE [r EXCEPT !.cur = NoRec, !.pc = "sa_set"]
    [] r.ret = "clr" ->
         IF ClearAllowed(c, r.id)
         THEN [r EXCEPT !.cur = NoRec, !.pc = "clr_del"]
         ELSE [r EXCEPT !.cur = NoRec, !.changed = FALSE, !.pc = "ld_lock"]
    [] r.ret = "fr" -> [r EXCEPT !.cur = NoRec, !.pc = "fr_del"]
    [] r.ret = "lp_resp" -> Finish(r, LockPostResponse(r, c))
    [] r.ret = "lg" -> [r EXCEPT !.cur = c, !.pc = "lg_lock"]
    [] r.ret = "cg" -> [r EXCEPT !.cur = NoRec, !.pc = "cg_reads"]
    [] r.ret = "rg_push" -> Finish(r, [Resp0 EXCEPT !.status = 101])

\* signal.ts frame {type: "active-controller", controllerId}.  nid is not
\* part of the frame: it records the notification the poller was handling
\* when it sent the frame (0 for a frame that no notification caused).
ActiveControllerFrame(controllerId, nid) ==
  [type |-> "active-controller", controllerId |-> controllerId, nid |-> nid]

\* signal.ts register verb, synth: after getActiveController() returned c,
\* if (activeControllerId) socket.send(active-controller)
Pushed(r, c) ==
  IF r.ret = "rg_push" /\ c # NoRec
  THEN [received EXCEPT ![r.id] = Append(@, ActiveControllerFrame(c.id, 0))]
  ELSE received

\* The same for status.ts getActiveController()
AfterLegacyGet(r, c) ==
  CASE r.ret = "lsa" ->
         LET b == SetActiveBranch(c, r.id, r.hb) IN
         IF b = "refresh" THEN [r EXCEPT !.pc = "lsa_refresh"]
         ELSE IF b = "reject"
              THEN [r EXCEPT !.changed = FALSE, !.pc = "lga", !.ret = "ls_resp"]
              ELSE [r EXCEPT !.pc = "lsa_set"]
    [] r.ret = "lclr" ->
         IF ClearAllowed(c, r.id)
         THEN [r EXCEPT !.pc = "lclr_del"]
         ELSE Finish(r, [Resp0 EXCEPT !.status = 200, !.success = FALSE])
    [] r.ret = "ls_resp" -> Finish(r, LockPostResponse(r, c))
    [] r.ret = "lget" -> Finish(r, StatusGetResponse(c))

\* ------------------------------------------------ manager.ts, step by step

\* getActiveController: kv.get(ACTIVE_CONTROLLER_KEY) has returned.
\* An expired record makes it call clearActiveController(id), which starts
\* with getActiveController() again: nested is that inner call, expId the id
\* clearActiveController was given.  However deep the recursion is, when the
\* innermost clearActiveController returns every enclosing getActiveController
\* returns null, so the depth itself is not kept.
MgrGet(p) ==
  LET r == proc[p] IN
  /\ r.pc = "ga"
  /\ UNCHANGED <<sockVars, regVars, extVars, now, kvVars, moduleInitialized, lastProcessedNotificationId,
                 activeConnections, attachedAt>>
  /\ IF kvActive = NoRec
     THEN /\ Set(p, AfterGet([r EXCEPT !.nested = FALSE, !.expId = Null], NoRec))
          /\ received' = Pushed(r, NoRec)
     ELSE IF Expired(kvActive, now)
     THEN /\ Set(p, [r EXCEPT !.nested = TRUE, !.expId = kvActive.id])
          /\ UNCHANGED received
     ELSE IF ~r.nested
     THEN /\ Set(p, AfterGet(r, kvActive))
          /\ received' = Pushed(r, kvActive)
     ELSE IF ClearAllowed(kvActive, r.expId)
     THEN /\ Set(p, [r EXCEPT !.pc = "clr_del"])
          /\ UNCHANGED received
     ELSE /\ Set(p, AfterGet([r EXCEPT !.nested = FALSE, !.expId = Null], NoRec))
          /\ received' = Pushed(r, NoRec)

\* clearActiveController: kv.delete(ACTIVE_CONTROLLER_KEY)
ClearDelete(p) ==
  LET r == proc[p] IN
  /\ r.pc = "clr_del"
  /\ kvActive' = NoRec
  /\ Set(p, [r EXCEPT !.pc = "clr_notify"])
  /\ UNCHANGED <<sockVars, regVars, extVars, sigVars, now, kvNotification, kvLock, kvLegacyActive,
                 kvLegacyNotification, nextUuid, published>>

\* clearActiveController: createControllerChangeNotification(null); return true
ClearNotify(p) ==
  LET r == proc[p] IN
  /\ r.pc = "clr_notify"
  /\ Publish(Null, r.tnow)
  /\ IF r.nested
     THEN Set(p, AfterGet([r EXCEPT !.nested = FALSE, !.expId = Null,
                                    !.emitted = r.emitted + 1], NoRec))
     ELSE Set(p, [r EXCEPT !.changed = TRUE, !.emitted = r.emitted + 1,
                           !.pc = "ld_lock"])
  /\ UNCHANGED <<sockVars, regVars, extVars, sigVars, now, kvActive, kvLock, kvLegacyActive, kvLegacyNotification>>

\* setActiveController, same id: kv.set({...current, timestamp: now}); return false
SetRefresh(p) ==
  LET r == proc[p] IN
  /\ r.pc = "sa_refresh"
  /\ kvActive' = RefreshedRecord(r.cur, r.tnow)
  /\ Set(p, [r EXCEPT !.cur = NoRec, !.changed = FALSE, !.pc = "lp_lock"])
  /\ UNCHANGED <<sockVars, regVars, extVars, sigVars, now, kvNotification, kvLock, kvLegacyActive,
                 kvLegacyNotification, nextUuid, published>>

\* setActiveController, change: kv.set of the new record
SetNew(p) ==
  LET r == proc[p] IN
  /\ r.pc = "sa_set"
  /\ kvActive' = ControllerRecord(r.id, r.tnow, r.inst)
  /\ Set(p, [r EXCEPT !.pc = "sa_notify"])
  /\ UNCHANGED <<sockVars, regVars, extVars, sigVars, now, kvNotification, kvLock, kvLegacyActive,
                 kvLegacyNotification, nextUuid, published>>

\* setActiveController, change: createControllerChangeNotification(id); return true
SetNotify(p) ==
  LET r == proc[p] IN
  /\ r.pc = "sa_notify"
  /\ Publish(r.id, r.tnow)
  /\ Set(p, [r EXCEPT !.changed = TRUE, !.emitted = r.emitted + 1,
                      !.pc = "lp_lock"])
  /\ UNCHANGED <<sockVars, regVars, extVars, sigVars, now, kvActive, kvLock, kvLegacyActive, kvLegacyNotification>>

\* forceResetControllerState: kv.delete(ACTIVE_CONTROLLER_KEY)
ForceDelete(p) ==
  LET r == proc[p] IN
  /\ r.pc = "fr_del"
  /\ kvActive' = NoRec
  /\ Set(p, [r EXCEPT !.pc = "fr_notify"])
  /\ UNCHANGED <<sockVars, regVars, extVars, sigVars, now, kvNotification, kvLock, kvLegacyActive,
                 kvLegacyNotification, nextUuid, published>>

\* forceResetControllerState: createControllerChangeNotification(null); return true
ForceNotify(p) ==
  LET r == proc[p] IN
  /\ r.pc = "fr_notify"
  /\ Publish(Null, r.tnow)
  /\ Set(p, [r EXCEPT !.changed = TRUE, !.emitted = r.emitted + 1,
                      !.pc = "cg_del_lock"])
  /\ UNCHANGED <<sockVars, regVars, extVars, sigVars, now, kvActive, kvLock, kvLegacyActive, kvLegacyNotification>>


\* ----------------------------------------------------- lock.ts, the rest

\* POST: kv.set(CONTROLLER_LOCK_KEY, {userId, timestamp}) (the timestamp of
\* the lock is never read and is left out), then
\* controllerManager.getActiveController() for the response
LockPostWriteLock(p) ==
  LET r == proc[p] IN
  /\ r.pc = "lp_lock"
  /\ kvLock' = [userId |-> r.id]
  /\ Set(p, [r EXCEPT !.pc = "ga", !.ret = "lp_resp"])
  /\ UNCHANGED <<sockVars, regVars, extVars, sigVars, now, kvActive, kvNotification, kvLegacyActive,
                 kvLegacyNotification, nextUuid, published>>

\* GET: kv.get(CONTROLLER_LOCK_KEY), then the response
LockGetRead(p) ==
  LET r == proc[p] IN
  /\ r.pc = "lg_lock"
  /\ Set(p, Finish(r, LockGetResponse(r, kvLock)))
  /\ UNCHANGED <<sockVars, regVars, extVars, sigVars, now, kvVars>>

\* DELETE: kv.delete(CONTROLLER_LOCK_KEY), then the response {success: cleared}
LockDeleteLock(p) ==
  LET r == proc[p] IN
  /\ r.pc = "ld_lock"
  /\ kvLock' = NoRec
  /\ Set(p, Finish(r, [Resp0 EXCEPT !.status = 200, !.success = r.changed]))
  /\ UNCHANGED <<sockVars, regVars, extVars, sigVars, now, kvActive, kvNotification, kvLegacyActive,
                 kvLegacyNotification, nextUuid, published>>

\* ---------------------------------------------------- clear.ts, the rest

\* GET: the three kv.get of the legacy keys (they only feed previousState),
\* then controllerManager.forceResetControllerState()
ClearGetReads(p) ==
  LET r == proc[p] IN
  /\ r.pc = "cg_reads"
  /\ Set(p, [r EXCEPT !.pc = "ga", !.ret = "fr"])
  /\ UNCHANGED <<sockVars, regVars, extVars, sigVars, now, kvVars>>

\* GET: kv.delete(CONTROLLER_LOCK_KEY)
ClearDeleteLock(p) ==
  LET r == proc[p] IN
  /\ r.pc = "cg_del_lock"
  /\ kvLock' = NoRec
  /\ Set(p, [r EXCEPT !.pc = "cg_del_old"])
  /\ UNCHANGED <<sockVars, regVars, extVars, sigVars, now, kvActive, kvNotification, kvLegacyActive,
                 kvLegacyNotification, nextUuid, published>>

\* GET: kv.delete(OLD_ACTIVE_CONTROLLER_KEY) (a key nothing writes) and
\* kv.delete(OLD_ACTIVE_CONTROLLER_KEY2), the key of status.ts; the response
ClearDeleteOld(p) ==
  LET r == proc[p] IN
  /\ r.pc = "cg_del_old"
  /\ kvLegacyActive' = NoRec
  /\ Set(p, Finish(r, [Resp0 EXCEPT !.status = 200, !.success = r.changed]))
  /\ UNCHANGED <<sockVars, regVars, extVars, sigVars, now, kvActive, kvNotification, kvLock,
                 kvLegacyNotification, nextUuid, published>>

\* ------------------------------------------------ status.ts, step by step

\* getActiveController: kv.get(ACTIVE_CONTROLLER_KEY) has returned
LegacyGet(p) ==
  LET r == proc[p] IN
  /\ r.pc = "lga"
  /\ UNCHANGED <<sockVars, regVars, extVars, sigVars, now, kvVars>>
  /\ IF kvLegacyActive = NoRec
     THEN Set(p, AfterLegacyGet(r, NoRec))
     ELSE IF Expired(kvLegacyActive, now)
     THEN Set(p, [r EXCEPT !.pc = "lga_del"])
     ELSE Set(p, AfterLegacyGet(r, kvLegacyActive))

\* getActiveController, expired: kv.delete(ACTIVE_CONTROLLER_KEY)
LegacyExpireDelete(p) ==
  LET r == proc[p] IN
  /\ r.pc = "lga_del"
  /\ kvLegacyActive' = NoRec
  /\ Set(p, [r EXCEPT !.pc = "lga_notify"])
  /\ UNCHANGED <<sockVars, regVars, extVars, sigVars, now, kvActive, kvNotification, kvLock,
                 kvLegacyNotification, nextUuid, published>>

\* getActiveController, expired: createControllerChangeNotification(null); return null
LegacyExpireNotify(p) ==
  LET r == proc[p] IN
  /\ r.pc = "lga_notify"
  /\ LegacyPublish(Null, r.tnow)
  /\ Set(p, AfterLegacyGet([r EXCEPT !.emitted = r.emitted + 1], NoRec))
  /\ UNCHANGED <<sockVars, regVars, extVars, sigVars, now, kvActive, kvNotification, kvLock, kvLegacyActive>>

\* setActiveController, same id: kv.set({id, timestamp}); return false;
\* the handler goes on to getActiveController()
LegacySetRefresh(p) ==
  LET r == proc[p] IN
  /\ r.pc = "lsa_refresh"
  /\ kvLegacyActive' = LegacyRecord(r.id, r.tnow)
  /\ Set(p, [r EXCEPT !.changed = FALSE, !.pc = "lga", !.ret = "ls_resp"])
  /\ UNCHANGED <<sockVars, regVars, extVars, sigVars, now, kvActive, kvNotification, kvLock,
                 kvLegacyNotification, nextUuid, published>>

\* setActiveController, change: kv.set({id, timestamp})
LegacySetNew(p) ==
  LET r == proc[p] IN
  /\ r.pc = "lsa_set"
  /\ kvLegacyActive' = LegacyRecord(r.id, r.tnow)
  /\ Set(p, [r EXCEPT !.pc = "lsa_notify"])
  /\ UNCHANGED <<sockVars, regVars, extVars, sigVars, now, kvActive, kvNotification, kvLock,
                 kvLegacyNotification, nextUuid, published>>

\* setActiveController, change: createControllerChangeNotification(id); return true
LegacySetNotify(p) ==
  LET r == proc[p] IN
  /\ r.pc = "lsa_notify"
  /\ LegacyPublish(r.id, r.tnow)
  /\ Set(p, [r EXCEPT !.changed = TRUE, !.emitted = r.emitted + 1,
                      !.pc = "lga", !.ret = "ls_resp"])
  /\ UNCHANGED <<sockVars, regVars, extVars, sigVars, now, kvActive, kvNotification, kvLock, kvLegacyActive>>

\* clearActiveController: kv.delete(ACTIVE_CONTROLLER_KEY); return true
\* (no notification is created here)
LegacyClearDelete(p) ==
  LET r == proc[p] IN
  /\ r.pc = "lclr_del"
  /\ kvLegacyActive' = NoRec
  /\ Set(p, Finish([r EXCEPT !.changed = TRUE],
                   [Resp0 EXCEPT !.status = 200, !.success = TRUE]))
  /\ UNCHANGED <<sockVars, regVars, extVars, sigVars, now, kvActive, kvNotification, kvLock,
                 kvLegacyNotification, nextUuid, published>>

\* ------------------------------------------------------------- signal.ts
\* Of the register verb the model keeps what the leadership service sees:
\* the socket entering activeConnections and the active-controller push.

\* isController(id): id.startsWith("controller-")
isController(id) == Len(id) > 0 /\ Head(id) = CONTROLLER_PREFIX

\* registerConnection: activeConnections.set(id, socket); then the handler
\* goes on to getActiveController() for the push
RegisterConnection(p) ==
  LET r == proc[p] IN
  /\ r.pc = "rg_conn"
  /\ activeConnections' = [activeConnections EXCEPT ![r.inst] = @ \cup {r.id}]
  /\ attachedAt' = [attachedAt EXCEPT ![r.id] = nextUuid]
  /\ Set(p, [r EXCEPT !.pc = "ga", !.ret = "rg_push"])
  /\ UNCHANGED <<sockVars, regVars, extVars, now, kvVars, moduleInitialized, lastProcessedNotificationId,
                 received>>

\* checkForControllerChangeNotifications: skip if there is no notification
\* or lastProcessedNotificationId is set and equal to its notificationId
NotificationIsNew(n, last) ==
  ~(n = NoRec \/ (last # 0 /\ last = n.notificationId))

\* faulty variant: no notification is taken for stale
NotificationIsStale_Never(n, t) == FALSE

\* checkForControllerChangeNotifications: age > 30000
NotificationIsStale(n, t) == t - n.timestamp > NOTIFICATION_MAX_AGE_MS

\* broadcastControllerChange: the non-controller ids with an OPEN socket
BroadcastTargets(i) ==
  {c \in activeConnections[i] \ notOpen[i] : ~isController(c)}

\* broadcastControllerChange(controllerId), every send succeeding
Broadcast(i, controllerId, nid) ==
  received' = [s \in DOMAIN received |->
                 IF s \in BroadcastTargets(i)
                 THEN Append(received[s], ActiveControllerFrame(controllerId, nid))
                 ELSE received[s]]

\* one run of the poller of instance i (setInterval, 1000 ms).  With every
\* send succeeding nothing is awaited after the kv.get, so it is one step.
CheckNotifications(i) ==
  LET n == kvNotification IN
  /\ moduleInitialized[i]
  /\ UNCHANGED <<sockVars, regVars, extVars, now, kvVars, proc, moduleInitialized, activeConnections,
                 attachedAt>>
  /\ IF ~NotificationIsNew(n, lastProcessedNotificationId[i])
     THEN UNCHANGED <<lastProcessedNotificationId, received>>
     ELSE /\ lastProcessedNotificationId' =
               [lastProcessedNotificationId EXCEPT ![i] = n.notificationId]
          /\ IF NotificationIsStale(n, now)
             THEN UNCHANGED received
             ELSE Broadcast(i, IF n.controllerId # Null
                                THEN standardizeControllerId(n.controllerId)
                                ELSE Null,
                            n.notificationId)

\* the poller of an initialized instance has seen the stored notification
PollerCaughtUp(i) ==
  moduleInitialized[i] =>
    ~NotificationIsNew(kvNotification, lastProcessedNotificationId[i])

\* ------------------------------------------------------ requests arriving

Unauthorized(p, hist, op, id, hb, mode) ==
  proc' = [proc EXCEPT ![p] =
    [IdleProc EXCEPT !.op = op, !.pc = "done", !.id = id, !.hb = hb,
                     !.mode = mode,
                     !.pre = IF hist THEN Snapshot ELSE NoRec,
                     !.resp = [Resp0 EXCEPT !.status = 401]]]

\* checkAuth(req) yields the session id, or null without a valid session
AuthResults == SessionIds \cup {Null}

\* lock.ts POST {heartbeat?}
StartLockPOST(p, hist) ==
  \E i \in Instances, sid \in AuthResults, hb \in BOOLEAN :
    /\ Free(p) /\ nextUuid <= MaxUuid
    /\ IF sid = Null
       THEN Unauthorized(p, hist, "lockPOST", sid, hb, "none")
       ELSE Begin(p, hist, "lockPOST", i, sid, hb, "none", "ga", "sa")
    /\ UNCHANGED <<sockVars, regVars, extVars, sigVars, now, kvVars>>

\* lock.ts GET, ?health=check or the authenticated status
StartLockGET(p, hist) ==
  \E i \in Instances, sid \in AuthResults, mode \in {"health", "status"} :
    /\ Free(p) /\ nextUuid <= MaxUuid
    /\ mode = "health" => sid = Null
    /\ IF mode = "status" /\ sid = Null
       THEN Unauthorized(p, hist, "lockGET", sid, FALSE, mode)
       ELSE Begin(p, hist, "lockGET", i, sid, FALSE, mode, "ga", "lg")
    /\ UNCHANGED <<sockVars, regVars, extVars, sigVars, now, kvVars>>

\* lock.ts DELETE
StartLockDELETE(p, hist) ==
  \E i \in Instances, sid \in AuthResults :
    /\ Free(p) /\ nextUuid <= MaxUuid
    /\ IF sid = Null
       THEN Unauthorized(p, hist, "lockDELETE", sid, FALSE, "none")
       ELSE Begin(p, hist, "lockDELETE", i, sid, FALSE, "none", "ga", "clr")
    /\ UNCHANGED <<sockVars, regVars, extVars, sigVars, now, kvVars>>

\* clear.ts GET ?admin_mode=...
StartClearGET(p, hist) ==
  \E i \in Instances, adminMode \in {"true", "false"} :
    /\ Free(p) /\ nextUuid <= MaxUuid
    /\ IF ~AdminAllowed(adminMode)
       THEN Unauthorized(p, hist, "clearGET", Null, FALSE, adminMode)
       ELSE Begin(p, hist, "clearGET", i, Null, FALSE, adminMode, "ga", "cg")
    /\ UNCHANGED <<sockVars, regVars, extVars, sigVars, now, kvVars>>

\* status.ts POST {heartbeat?}
StartStatusPOST(p, hist) ==
  \E i \in Instances, sid \in AuthResults, hb \in BOOLEAN :
    /\ Free(p) /\ nextUuid <= MaxUuid
    /\ IF sid = Null
       THEN Unauthorized(p, hist, "statusPOST", sid, hb, "none")
       ELSE Begin(p, hist, "statusPOST", i, sid, hb, "none", "lga", "lsa")
    /\ UNCHANGED <<sockVars, regVars, extVars, sigVars, now, kvVars>>

\* status.ts GET (no auth)
StartStatusGET(p, hist) ==
  \E i \in Instances :
    /\ Free(p) /\ nextUuid <= MaxUuid
    /\ Begin(p, hist, "statusGET", i, Null, FALSE, "none", "lga", "lget")
    /\ UNCHANGED <<sockVars, regVars, extVars, sigVars, now, kvVars>>

\* status.ts DELETE
StartStatusDELETE(p, hist) ==
  \E i \in Instances, sid \in AuthResults :
    /\ Free(p) /\ nextUuid <= MaxUuid
    /\ IF sid = Null
       THEN Unauthorized(p, hist, "statusDELETE", sid, FALSE, "none")
       ELSE Begin(p, hist, "statusDELETE", i, sid, FALSE, "none", "lga", "lclr")
    /\ UNCHANGED <<sockVars, regVars, extVars, sigVars, now, kvVars>>

\* signal.ts GET (WebSocket upgrade) followed by the register frame of a
\* synth that has no socket yet: initializeModule() starts the poller
StartRegister(p, hist) ==
  \E i \in Instances, s \in SynthIds :
    /\ Free(p) /\ nextUuid <= MaxUuid
    /\ \A j \in Instances : s \notin activeConnections[j]
    /\ moduleInitialized' = [moduleInitialized EXCEPT ![i] = TRUE]
    /\ Begin(p, hist, "register", i, s, FALSE, "none", "rg_conn", "none")
    /\ UNCHANGED <<sockVars, regVars, extVars, now, kvVars, lastProcessedNotificationId,
                   activeConnections, received, attachedAt>>

\* the response has been sent: the handler is gone
Respond(p) ==
  /\ proc[p].pc = "done"
  /\ proc' = [proc EXCEPT ![p] = IdleProc]
  /\ UNCHANGED <<sockVars, regVars, extVars, sigVars, now, kvVars>>

\* the wall clock advances by TickMs; every running poller (period 1000 ms)
\* has run in the meantime
Tick ==
  /\ now + TickMs <= MaxNow
  /\ \A i \in Instances : PollerCaughtUp(i)
  /\ now' = now + TickMs
  /\ UNCHANGED <<sockVars, regVars, extVars, sigVars, kvVars, proc>>

\* ------------------------------------- signal.ts: message queues and relay
\* The horizon MaxNow is shorter than QUEUE_TTL_MS (5 minutes), so no queue
\* entry expires within a behaviour.

\* bounds: calls of queueMessage, envelopes relayed, and values of the
\* random part of a ULID
MaxMsg == 2
MaxRelay == 1
MaxRnd == 2

DrainSlots == {"d1", "d2"}
\* the ids that take part in the relay
RelayIds == SynthIds \cup ControllerIds
RelayTypes == {"offer", "answer", "ice-candidate"}

IdleDrain == [pc |-> "idle", inst |-> "i1", id |-> Null, batch |-> <<>>, k |-> 0]

\* the socket of id c in the local map of instance i is present and OPEN
IsOpen(i, c) == c \in activeConnections[i] /\ c \notin notOpen[i]

\* faulty variant: the envelope keeps the source the inbound frame carried
Envelope_ClaimedSource(type, clientId, claimed, seq) ==
  [type |-> type, data |-> "data", source |-> claimed, seq |-> seq]

\* offer / answer / ice-candidate: {type, data, source: clientId}.  seq is
\* not part of the envelope: it numbers the inbound frames.
Envelope(type, clientId, claimed, seq) ==
  [type |-> type, data |-> "data", source |-> clientId, seq |-> seq]

\* ulid(): 48 bits of Date.now() followed by 80 random bits; keys compare
\* by time first and by the random part within one millisecond
KeyLess(a, b) == a.ms < b.ms \/ (a.ms = b.ms /\ a.rnd < b.rnd)

\* the entries under the prefix ["webrtc","messages",target]
MessagesFor(target) == {e \in kvMessages : e.target = target}

\* kv.list({prefix}): the entries in key order
RECURSIVE ListInKeyOrder(_)
ListInKeyOrder(S) ==
  IF S = {} THEN <<>>
  ELSE LET m == CHOOSE e \in S : \A f \in S \ {e} : KeyLess(e, f)
       IN <<m>> \o ListInKeyOrder(S \ {m})

\* queueMessage(targetId, message): kv.set under a fresh ULID
QueueMessage(target, message) ==
  \E rnd \in 1..MaxRnd :
    /\ \A e \in MessagesFor(target) : ~(e.ms = now /\ e.rnd = rnd)
    /\ kvMessages' = kvMessages \cup
         {[target |-> target, ms |-> now, rnd |-> rnd, msg |-> message]}

\* socket.send(frame) on the socket of id c
Send(c, frame) == received' = [received EXCEPT ![c] = Append(@, frame)]

\* what the log keeps of one inbound envelope: who sent it to which
\* instance, the source the frame claimed, whether the target had an OPEN
\* socket there, the path taken and whether the send succeeded
Handled(i, sender, target, claimed, path, sent, env) ==
  [inst |-> i, sender |-> sender, target |-> target, claimed |-> claimed,
   open |-> IsOpen(i, target), path |-> path, sent |-> sent, env |-> env]

\* faulty variant: the envelope is queued whether or not the target has an
\* OPEN local socket
RelayPath_AlwaysQueue(i, target) == "queue"

\* the branch taken by the offer / answer / ice-candidate case
RelayPath(i, target) == IF IsOpen(i, target) THEN "direct" ELSE "queue"

\* onmessage, case offer / answer / ice-candidate, from the socket that
\* registered as sender on instance i: the lastSeen refresh of the sender's
\* record, if it has one, then the delivery.  A send that throws is caught
\* by the handler's outer catch and only logged.
Relay(i, sender, target, type, claimed) ==
  LET env == Envelope(type, sender, claimed, nextMsg) IN
  /\ nextMsg <= MaxRelay
  /\ IsOpen(i, sender)
  /\ nextMsg' = nextMsg + 1
  /\ kvConnections' =
       [kvConnections EXCEPT ![sender] =
          IF @ = NoRec THEN NoRec
          ELSE [@ EXCEPT !.lastSeen = now,
                         !.connectionTimestamp =
                           IF @ = 0 THEN now ELSE @]]
  /\ IF RelayPath(i, target) = "direct"
     THEN \E ok \in BOOLEAN :
            /\ IF ok THEN Send(target, env) ELSE UNCHANGED received
            /\ relayLog' = Append(relayLog,
                 Handled(i, sender, target, claimed, "direct", ok, env))
            /\ UNCHANGED kvMessages
     ELSE /\ QueueMessage(target, env)
          /\ relayLog' = Append(relayLog,
               Handled(i, sender, target, claimed, "queue", FALSE, env))
          /\ UNCHANGED received
  /\ UNCHANGED <<sockVars, kvControllers, activeControllers,
                 activeWebRTCConnections, sweep, removed, nextReg, now,
                 kvVars, proc, moduleInitialized,
                 lastProcessedNotificationId, activeConnections, attachedAt,
                 notOpen, drain>>

\* some handler calls queueMessage(target, message): the relay on an
\* instance that has no OPEN socket of the target, notifyControllers
QueueCall(target) ==
  /\ nextMsg <= MaxMsg
  /\ nextMsg' = nextMsg + 1
  /\ \E type \in RelayTypes, sender \in ControllerIds :
       QueueMessage(target, Envelope(type, sender, sender, nextMsg))
  /\ UNCHANGED <<sockVars, regVars, now, kvVars, proc, sigVars, notOpen, drain, relayLog>>

\* processMessages(id, socket) starts: the 500 ms interval of a registered
\* id, or the run the register verb makes
StartDrain(d, i, c) ==
  /\ drain[d].pc = "idle"
  /\ c \in activeConnections[i]
  /\ drain' = [drain EXCEPT ![d] =
                 [IdleDrain EXCEPT !.pc = "list", !.inst = i, !.id = c]]
  /\ UNCHANGED <<sockVars, regVars, now, kvVars, proc, sigVars, notOpen, kvMessages, nextMsg,
                 relayLog>>

\* the run sends entry k of its batch; a send on a socket that is not OPEN
\* throws, which ends the run and leaves the entry in the queue
DrainSend(d, r, batch, k) ==
  IF k <= Len(batch) /\ IsOpen(r.inst, r.id)
  THEN /\ Send(r.id, batch[k].msg)
       /\ drain' = [drain EXCEPT ![d] =
                      [r EXCEPT !.pc = "del", !.batch = batch, !.k = k]]
  ELSE /\ UNCHANGED received
       /\ drain' = [drain EXCEPT ![d] = IdleDrain]

\* kv.list has returned the entries; the first one is sent
DrainList(d) ==
  LET r == drain[d] IN
  /\ r.pc = "list"
  /\ DrainSend(d, r, ListInKeyOrder(MessagesFor(r.id)), 1)
  /\ UNCHANGED <<sockVars, regVars, now, kvVars, proc, moduleInitialized,
                 lastProcessedNotificationId, activeConnections, attachedAt,
                 notOpen, kvMessages, nextMsg, relayLog>>

\* kv.delete(entry.key) of the entry just sent; then the next one is sent
DrainDelete(d) ==
  LET r == drain[d] IN
  /\ r.pc = "del"
  /\ kvMessages' = kvMessages \ {r.batch[r.k]}
  /\ DrainSend(d, r, r.batch, r.k + 1)
  /\ UNCHANGED <<sockVars, regVars, now, kvVars, proc, moduleInitialized,
                 lastProcessedNotificationId, activeConnections, attachedAt,
                 notOpen, nextMsg, relayLog>>

\* registerConnection: activeConnections.set(id, socket), for an id that has
\* no socket on any instance and no run of processMessages left over
SocketOpen(i, c) ==
  /\ \A j \in Instances : c \notin activeConnections[j]
  /\ \A d \in DrainSlots : drain[d].id # c
  /\ activeConnections' = [activeConnections EXCEPT ![i] = @ \cup {c}]
  /\ UNCHANGED <<sockVars, regVars, now, kvVars, proc, moduleInitialized,
                 lastProcessedNotificationId, received, attachedAt, extVars>>

\* the connection is lost: readyState leaves OPEN before onclose runs
SocketClosing(i, c) ==
  /\ IsOpen(i, c)
  /\ notOpen' = [notOpen EXCEPT ![i] = @ \cup {c}]
  /\ UNCHANGED <<sockVars, regVars, now, kvVars, proc, sigVars, kvMessages, nextMsg, drain,
                 relayLog>>

\* socket.onclose -> unregisterConnection: activeConnections.delete(id)
SocketClosed(i, c) ==
  /\ c \in notOpen[i]
  /\ activeConnections' = [activeConnections EXCEPT ![i] = @ \ {c}]
  /\ notOpen' = [notOpen EXCEPT ![i] = @ \ {c}]
  /\ UNCHANGED <<sockVars, regVars, now, kvVars, proc, moduleInitialized,
                 lastProcessedNotificationId, received, attachedAt,
                 kvMessages, nextMsg, drain, relayLog>>

\* ------------------------------- signal.ts: client registry and the reaper
\* The handlers of this section are served one at a time, each to
\* completion.  CLIENT_TTL_MS (10 minutes) is longer than the horizon MaxNow,
\* so no ClientRecord expires within a behaviour.  Of the frames a handler
\* sends, received keeps the notifications to controllers and the queued
\* messages delivered; the replies of the register verb to the sending
\* socket itself (registration-confirmed, then client-list or
\* active-controller) and the client-list of controller-activate are kept,
\* in the order sent, in handled.replies; heartbeat_ack and the client-list
\* sent after a run of the reaper are left out.

\* bound: calls of registerConnection
MaxRegister == 3

\* the timestamp field of a register frame; 0 stands for a missing field
ClientTimestamps == {0, 7}

\* kv.list({prefix: ["webrtc","connections"]}) returns the keys in
\* lexicographic order of the id
ListOrder == << <<"controller-", "c">>, <<"controller-", "d">>,
                <<"synth-", "x">>, <<"synth-", "y">> >>

\* the ids of S in the order kv.list returns them
InListOrder(S) == SelectSeq(ListOrder, LAMBDA c : c \in S)

\* a || b on numbers: 0 (and a missing field, modelled as 0) is falsy
JsOr(a, b) == IF a = 0 THEN b ELSE a

\* hasActiveWebRTCConnection / the loop at the head of the reaper: the
\* union of the sets of every controller in the map of instance i
ClientsWithActiveConnections(i) ==
  UNION {activeWebRTCConnections[i][c] : c \in RegistryControllers}

\* faulty variant: a registration always stamps the record with the current
\* time
RegisteredRecord_FreshTimestamp(existing, instanceId, isReconnect, timestamp, t, id) ==
  [instanceId |-> instanceId, lastSeen |-> t, connectionTimestamp |-> t,
   reconnectionCount |->
     IF existing # NoRec THEN JsOr(existing.reconnectionCount, 0) + 1 ELSE 0,
   lastReconnectTime |->
     IF isReconnect THEN t
     ELSE IF existing # NoRec THEN existing.lastReconnectTime ELSE 0,
   isController |-> isController(id)]

\* registerConnection: the ClientRecord written, from the record read
\* before (existing), the reconnect flag and the timestamp argument
RegisteredRecord(existing, instanceId, isReconnect, timestamp, t, id) ==
  [instanceId |-> instanceId, lastSeen |-> t,
   connectionTimestamp |->
     IF isReconnect /\ existing # NoRec
     THEN JsOr(existing.connectionTimestamp, JsOr(timestamp, t))
     ELSE IF existing # NoRec THEN JsOr(existing.connectionTimestamp, t)
          ELSE t,
   reconnectionCount |->
     IF existing # NoRec THEN JsOr(existing.reconnectionCount, 0) + 1 ELSE 0,
   lastReconnectTime |->
     IF isReconnect THEN t
     ELSE IF existing # NoRec THEN existing.lastReconnectTime ELSE 0,
   isController |-> isController(id)]

\* registerConnection: the entry of the controller directory
DirectoryRecord(rec) ==
  [instanceId |-> rec.instanceId, lastSeen |-> rec.lastSeen,
   connectionTimestamp |-> rec.connectionTimestamp,
   reconnectionCount |-> rec.reconnectionCount]

\* faulty variant: the refresh stamps the connection time as well
RefreshedClient_Restamped(existing, t) ==
  IF existing = NoRec THEN NoRec
  ELSE [existing EXCEPT !.lastSeen = t, !.connectionTimestamp = t]

\* onmessage, before the switch, and case heartbeat: if the record exists,
\* {...existing, lastSeen: now, connectionTimestamp: existing.connectionTimestamp || now}
RefreshedClient(existing, t) ==
  IF existing = NoRec THEN NoRec
  ELSE [existing EXCEPT !.lastSeen = t,
                        !.connectionTimestamp = JsOr(@, t)]

\* the message of notifyControllers(type, data); of data it keeps the id
Notice(type, id) == [type |-> type, clientId |-> id]

\* notifyControllers: the local controllers whose socket is OPEN
DirectControllers(i) == {c \in activeControllers[i] : IsOpen(i, c)}

\* notifyControllers: the other local controllers, and the controllers of
\* the directory that are not local, get the message queued
QueuedControllers(i) ==
  (activeControllers[i] \cup
     {c \in RegistryControllers : kvControllers[c] # NoRec})
  \ DirectControllers(i)

\* the random part of the ULID of a message queued for c by notifyControllers.
\* How the entries of one millisecond are ordered is the subject of
\* QueueMessage; here the part is the next one unused.
NoticeRnd(c, msgs) ==
  1 + Cardinality({e \in msgs : e.target = c /\ e.ms = now})

\* notifyControllers(type, data) on instance i, starting from the frames
\* rcv and the queues msgs
NotifyControllers(i, message, rcv, msgs) ==
  /\ received' = [c \in ClientIds |->
                    IF c \in DirectControllers(i)
                    THEN Append(rcv[c], message) ELSE rcv[c]]
  /\ kvMessages' = msgs \cup
       {[target |-> c, ms |-> now, rnd |-> NoticeRnd(c, msgs),
         msg |-> message] : c \in QueuedControllers(i)}

\* processMessages(id, socket) on an OPEN socket, run to its end: the frames
\* of id after every queued entry was sent in key order
DrainedFrames(c) ==
  LET batch == ListInKeyOrder(MessagesFor(c)) IN
  [received EXCEPT ![c] = @ \o [k \in 1..Len(batch) |-> batch[k].msg]]

\* ... and the queues after every entry sent was deleted
DrainedQueues(c) == kvMessages \ MessagesFor(c)

\* the reply {type: "registration-confirmed", id, reconnectionCount,
\* timestamp, isReconnection} built from the record read back (timestamp,
\* Date.now(), is left out)
RegistrationConfirmed(c, rec, isReconnect) ==
  [type |-> "registration-confirmed", id |-> c,
   reconnectionCount |->
     IF rec = NoRec THEN 0 ELSE JsOr(rec.reconnectionCount, 0),
   isReconnection |-> isReconnect]

\* faulty variant: every listed client is said to have a local socket
ConnectedClient_AlwaysSocket(i, id, rec, t) ==
  LET lastSeen == JsOr(rec.lastSeen, 0)
      connectionTimestamp == JsOr(rec.connectionTimestamp, lastSeen)
  IN [id |-> id, lastSeen |-> lastSeen,
      connectionTimestamp |-> connectionTimestamp,
      reconnectionCount |-> JsOr(rec.reconnectionCount, 0),
      lastReconnectTime |-> JsOr(rec.lastReconnectTime, 0),
      isInGracePeriod |-> t - connectionTimestamp < CLIENT_GRACE_PERIOD_MS,
      hasWebsocket |-> TRUE,
      webRTCConnected |-> id \in ClientsWithActiveConnections(i)]

\* getConnectedClients on instance i: the entry made of the record of id
\* (connected is the constant false and is left out)
ConnectedClient(i, id, rec, t) ==
  LET lastSeen == JsOr(rec.lastSeen, 0)
      connectionTimestamp == JsOr(rec.connectionTimestamp, lastSeen)
  IN [id |-> id, lastSeen |-> lastSeen,
      connectionTimestamp |-> connectionTimestamp,
      reconnectionCount |-> JsOr(rec.reconnectionCount, 0),
      lastReconnectTime |-> JsOr(rec.lastReconnectTime, 0),
      isInGracePeriod |-> t - connectionTimestamp < CLIENT_GRACE_PERIOD_MS,
      hasWebsocket |-> id \in activeConnections[i],
      webRTCConnected |-> id \in ClientsWithActiveConnections(i)]

\* getConnectedClients on instance i over the ClientRecords recs: every
\* record of a non-controller, in the order of kv.list
getConnectedClients(i, recs, t) ==
  LET ids == InListOrder({c \in ClientIds :
                            recs[c] # NoRec /\ ~isController(c)})
  IN [k \in 1..Len(ids) |-> ConnectedClient(i, ids[k], recs[ids[k]], t)]

\* the frame {type: "client-list", clients}
ClientList(clients) == [type |-> "client-list", clients |-> clients]

\* signal.ts getActiveController() as the register verb uses it: the id of
\* the stored ControllerRecord, null without one
ActiveControllerId(active) == IdOf(active)

\* getActiveController() returns: there is no ControllerRecord or it is not
\* expired (on an expired one the call does not return)
GetActiveReturns == kvActive = NoRec \/ Live(kvActive, now)

\* the register verb after registerConnection and processMessages: what
\* the socket of c is sent. A synth gets the active-controller frame only
\* if (activeControllerId).
RegisterReplies(i, c, rec, isReconnect, recs, active) ==
  <<RegistrationConfirmed(c, rec, isReconnect)>> \o
  (IF isController(c)
   THEN <<ClientList(getConnectedClients(i, recs, now))>>
   ELSE IF ActiveControllerId(active) # Null
        THEN <<ActiveControllerFrame(ActiveControllerId(active), 0)>>
        ELSE <<>>)

IdleSweep ==
  [pc |-> "idle", inst |-> "i1", by |-> Null, held |-> {},
   toRemove |-> <<>>, k |-> 0, pre |-> NoRec]

\* no run of the reaper is in flight
NoSweep == sweep.pc = "idle"

\* onmessage, case register, from a socket on instance i: a first
\* registration of id c, or the socket that registered c registers again.
\* The handler runs to its end, which it does when getActiveController()
\* returns: the stored ControllerRecord, if any, is not expired.
Register(i, c, isReconnect, timestamp) ==
  LET existing == IF c \in activeConnections[i]
                  THEN RefreshedClient(kvConnections[c], now)
                  ELSE kvConnections[c]
      rec == RegisteredRecord(existing, i, isReconnect,
                              JsOr(timestamp, now), now, c)
      frames == DrainedFrames(c)
  IN
  /\ NoSweep
  /\ nextReg <= MaxRegister
  /\ GetActiveReturns
  /\ \A j \in Instances \ {i} : c \notin activeConnections[j]
  /\ nextReg' = nextReg + 1
  /\ kvConnections' = [kvConnections EXCEPT ![c] = rec]
  /\ activeConnections' = [activeConnections EXCEPT ![i] = @ \cup {c}]
  /\ IF isController(c)
     THEN /\ activeControllers' = [activeControllers EXCEPT ![i] = @ \cup {c}]
          /\ kvControllers' = [kvControllers EXCEPT ![c] = DirectoryRecord(rec)]
          /\ received' = frames
          /\ kvMessages' = DrainedQueues(c)
     ELSE /\ NotifyControllers(i,
               Notice(IF isReconnect THEN "client-reconnected"
                      ELSE "client-connected", c),
               frames, DrainedQueues(c))
          /\ UNCHANGED <<activeControllers, kvControllers>>
  /\ pollingIntervals' = [pollingIntervals EXCEPT ![i] = @ \cup {c}]
  /\ lastOp' = [lastOp EXCEPT ![c] = "register"]
  /\ handled' = [handled EXCEPT
       !.verb = "register", !.inst = i, !.id = c,
       !.replies = RegisterReplies(i, c, rec, isReconnect,
                                   [kvConnections EXCEPT ![c] = rec],
                                   kvActive)]
  /\ UNCHANGED <<sweepTimers, sock, socketOf, timerOf, now, kvVars,
                 proc, moduleInitialized, lastProcessedNotificationId,
                 attachedAt, notOpen, nextMsg, drain, relayLog,
                 activeWebRTCConnections, sweep, removed>>

\* faulty variant: unregisterConnection leaves the polling timer running
ClearedIntervals_Kept(i, c) == pollingIntervals

\* unregisterConnection: clearInterval and pollingIntervals.delete(id)
ClearedIntervals(i, c) == [pollingIntervals EXCEPT ![i] = @ \ {c}]

\* socket.onclose -> unregisterConnection(id); activeWebRTCConnections is
\* not touched
Unregister(i, c) ==
  /\ NoSweep
  /\ c \in activeConnections[i]
  /\ kvConnections' = [kvConnections EXCEPT ![c] = NoRec]
  /\ activeConnections' = [activeConnections EXCEPT ![i] = @ \ {c}]
  /\ notOpen' = [notOpen EXCEPT ![i] = @ \ {c}]
  /\ IF isController(c)
     THEN /\ activeControllers' = [activeControllers EXCEPT ![i] = @ \ {c}]
          /\ kvControllers' = [kvControllers EXCEPT ![c] = NoRec]
          /\ UNCHANGED <<received, kvMessages>>
     ELSE /\ NotifyControllers(i, Notice("client-disconnected", c),
                               received, kvMessages)
          /\ UNCHANGED <<activeControllers, kvControllers>>
  /\ pollingIntervals' = ClearedIntervals(i, c)
  /\ lastOp' = [lastOp EXCEPT ![c] = "unregister"]
  /\ UNCHANGED <<handled, sweepTimers, sock, socketOf, timerOf, now, kvVars,
                 proc, moduleInitialized, lastProcessedNotificationId,
                 attachedAt, nextMsg, drain, relayLog,
                 activeWebRTCConnections, sweep, removed, nextReg>>

\* onmessage with a verb that touches no registry state: the lastSeen
\* refresh made for every inbound message of a registered socket
Refresh(i, c) ==
  /\ NoSweep
  /\ c \in activeConnections[i]
  /\ kvConnections' =
       [kvConnections EXCEPT ![c] = RefreshedClient(@, now)]
  /\ UNCHANGED <<sockVars, now, kvVars, proc, sigVars, extVars, kvControllers,
                 activeControllers, activeWebRTCConnections, sweep, removed,
                 nextReg>>

\* the frame the heartbeat case sends back
HeartbeatAck(t) == [type |-> "heartbeat_ack", timestamp |-> t]

\* onmessage, case heartbeat: the refresh, then the same write once more,
\* then the acknowledgment to the sender
Heartbeat(i, c) ==
  /\ NoSweep
  /\ c \in activeConnections[i]
  /\ kvConnections' =
       [kvConnections EXCEPT
          ![c] = RefreshedClient(RefreshedClient(@, now), now)]
  /\ handled' = [handled EXCEPT !.verb = "heartbeat", !.inst = i, !.id = c,
                                !.replies = <<HeartbeatAck(now)>>]
  /\ UNCHANGED <<lastOp, sweepTimers, pollingIntervals, sock, socketOf,
                 timerOf, now, kvVars, proc, sigVars, extVars, kvControllers,
                 activeControllers, activeWebRTCConnections, sweep, removed,
                 nextReg>>

\* the 500 ms interval of a registered id: processMessages(id, socket)
Poll(i, c) ==
  /\ NoSweep
  /\ c \in pollingIntervals[i]
  /\ IsOpen(i, c)
  /\ MessagesFor(c) # {}
  /\ received' = DrainedFrames(c)
  /\ kvMessages' = DrainedQueues(c)
  /\ UNCHANGED <<sockVars, now, kvVars, proc, moduleInitialized,
                 lastProcessedNotificationId, activeConnections, attachedAt,
                 notOpen, nextMsg, drain, relayLog, regVars>>

\* cleanupBasedOnWebRTCConnections is entered on instance i: the union is
\* taken before kv.list is awaited
SweepBegin(i, by) ==
  sweep' = [IdleSweep EXCEPT !.pc = "list", !.inst = i, !.by = by,
                             !.held = ClientsWithActiveConnections(i)]

\* controller-connections: the sweep runs at once unless the sender is the
\* active controller and its activation is at most half a grace period old
SweepAfterReport(active, c, activation, t) ==
  IF active = c
  THEN IF activation # NoRec /\ activation.timestamp # 0
       THEN 2 * (t - activation.timestamp) > CLIENT_GRACE_PERIOD_MS
       ELSE TRUE
  ELSE TRUE

\* controller-connections reads the activation time under the key
\* ["webrtc","active","controller"], which no handler, no timer and no
\* endpoint writes: the key holds no value
OldActiveRecord == NoRec

\* onmessage, case controller-connections, from controller c on instance i.
\* With no ControllerRecord stored, getActiveController() returns null.
ControllerConnections(i, c, connections) ==
  /\ NoSweep
  /\ c \in activeConnections[i]
  /\ isController(c)
  /\ kvActive = NoRec
  /\ kvConnections' =
       [kvConnections EXCEPT ![c] = RefreshedClient(@, now)]
  /\ activeWebRTCConnections' =
       [activeWebRTCConnections EXCEPT ![i][c] = connections]
  /\ IF SweepAfterReport(IdOf(kvActive), c, OldActiveRecord, now)
     THEN sweep' = [IdleSweep EXCEPT
                      !.pc = "list", !.inst = i,
                      !.by = "controller-connections",
                      !.held = UNION {IF d = c THEN connections
                                      ELSE activeWebRTCConnections[i][d] :
                                      d \in RegistryControllers}]
     ELSE UNCHANGED sweep
  /\ UNCHANGED <<sockVars, now, kvVars, proc, sigVars, extVars, kvControllers,
                 activeControllers, removed, nextReg>>

\* onmessage, case controller-heartbeat: cleanupInactiveClients()
ControllerHeartbeat(i, c) ==
  /\ NoSweep
  /\ c \in activeConnections[i]
  /\ isController(c)
  /\ kvConnections' =
       [kvConnections EXCEPT ![c] = RefreshedClient(@, now)]
  /\ SweepBegin(i, "controller-heartbeat")
  /\ UNCHANGED <<sockVars, now, kvVars, proc, sigVars, extVars, kvControllers,
                 activeControllers, activeWebRTCConnections, removed,
                 nextReg>>

\* faulty variant: the reaper skips no record
SweepSkips_None(id) == FALSE

\* the reaper: if (isController(clientId)) continue
SweepSkips(id) == isController(id)

\* faulty variant: no record is in its grace period
InGracePeriod_Never(rec, t) == FALSE

\* the reaper: now - (connectionTimestamp || 0) < CLIENT_GRACE_PERIOD_MS
InGracePeriod(rec, t) ==
  t - JsOr(rec.connectionTimestamp, 0) < CLIENT_GRACE_PERIOD_MS

\* the reaper: the record of id goes on the list clientsToRemove
ToRemove(id, rec, held, t) ==
  ~SweepSkips(id) /\ ~InGracePeriod(rec, t) /\ id \notin held

\* the reaper has enumerated the ClientRecords
SweepList ==
  /\ sweep.pc = "list"
  /\ sweep' = [sweep EXCEPT
       !.pc = "del", !.k = 1,
       !.toRemove = InListOrder(
          {c \in ClientIds : kvConnections[c] # NoRec
             /\ ToRemove(c, kvConnections[c], sweep.held, now)}),
       !.pre = [kvConnections |-> kvConnections,
                kvControllers |-> kvControllers,
                received |-> received, kvMessages |-> kvMessages]]
  /\ UNCHANGED <<sockVars, now, kvVars, proc, sigVars, extVars, kvConnections,
                 kvControllers, activeControllers, activeWebRTCConnections,
                 removed, nextReg>>

\* the controllers that are registered and report a connection to id, with
\* the instance whose map holds the report
Reporters(id) ==
  {h \in [controller : RegistryControllers, inst : Instances] :
     /\ h.controller \in activeControllers[h.inst]
     /\ id \in activeWebRTCConnections[h.inst][h.controller]}

\* what the history keeps of one deletion by the reaper
Removal(id, i) ==
  [id |-> id, inst |-> i, at |-> now, rec |-> kvConnections[id],
   reporters |-> Reporters(id), by |-> sweep.by]

\* the reaper: kv.delete(client.key) of the next client on the list, then
\* notifyControllers("client-disconnected", {clientId}), not awaited
SweepDelete ==
  /\ sweep.pc = "del"
  /\ sweep.k <= Len(sweep.toRemove)
  /\ LET id == sweep.toRemove[sweep.k] IN
       /\ kvConnections' = [kvConnections EXCEPT ![id] = NoRec]
       /\ removed' = removed \cup {Removal(id, sweep.inst)}
       /\ NotifyControllers(sweep.inst, Notice("client-disconnected", id),
                            received, kvMessages)
  /\ sweep' = [sweep EXCEPT !.k = @ + 1]
  /\ UNCHANGED <<sockVars, now, kvVars, proc, moduleInitialized,
                 lastProcessedNotificationId, activeConnections, attachedAt,
                 notOpen, nextMsg, drain, relayLog, kvControllers,
                 activeControllers, activeWebRTCConnections, nextReg>>

\* the reaper has worked through its list
SweepEnd ==
  /\ sweep.pc = "del"
  /\ sweep.k > Len(sweep.toRemove)
  /\ sweep' = [sweep EXCEPT !.pc = "done"]
  /\ UNCHANGED <<sockVars, now, kvVars, proc, sigVars, extVars, kvConnections,
                 kvControllers, activeControllers, activeWebRTCConnections,
                 removed, nextReg>>

\* cleanupBasedOnWebRTCConnections returns to the handler that called it
SweepReturn ==
  /\ sweep.pc = "done"
  /\ sweep' = IdleSweep
  /\ UNCHANGED <<sockVars, now, kvVars, proc, sigVars, extVars, kvConnections,
                 kvControllers, activeControllers, activeWebRTCConnections,
                 removed, nextReg>>

\* --------------------------- signal.ts: the verbs of the leadership, and
\* the frames no case of the switch takes

\* bound: frames of these verbs handled
MaxFrames == 2

\* the history of a frame of verb handled for the socket of c on instance i,
\* with the frames sent back on the socket
HandledFrame(verb, i, c, replies) ==
  [n |-> handled.n + 1, verb |-> verb, inst |-> i, id |-> c,
   replies |-> replies]

\* lock.ts POST {heartbeat: false} on instance i with the cookie of the
\* session sid, sent while no ControllerRecord is stored
LockPOSTFrom(p, i, sid) ==
  /\ Free(p) /\ nextUuid <= MaxUuid
  /\ kvActive = NoRec
  /\ Begin(p, FALSE, "lockPOST", i, sid, FALSE, "none", "ga", "sa")
  /\ UNCHANGED <<sockVars, regVars, extVars, sigVars, now, kvVars>>

\* the callback controller-activate hands to setTimeout, due after
\* CLIENT_GRACE_PERIOD_MS
SweepTimer(i, c, t) == [inst |-> i, id |-> c, due |-> t + CLIENT_GRACE_PERIOD_MS]

\* onmessage, case controller-activate, from the socket of c on instance i:
\* broadcastControllerChange(clientId) with the id as registered, the
\* client-list, and the timer of the delayed sweep. No ControllerRecord is
\* written and no ChangeNotification is created.
ControllerActivate(i, c) ==
  LET recs == [kvConnections EXCEPT ![c] = RefreshedClient(@, now)] IN
  /\ NoSweep
  /\ handled.n < MaxFrames
  /\ c \in activeConnections[i]
  /\ kvConnections' = recs
  /\ IF isController(c)
     THEN /\ Broadcast(i, c, 0)
          /\ handled' = HandledFrame("controller-activate", i, c,
                <<ClientList(getConnectedClients(i, recs, now))>>)
          /\ sweepTimers' = sweepTimers \cup {SweepTimer(i, c, now)}
     ELSE /\ handled' = HandledFrame("controller-activate", i, c, <<>>)
          /\ UNCHANGED <<received, sweepTimers>>
  /\ UNCHANGED <<lastOp, pollingIntervals, sock, socketOf, timerOf, now,
                 kvVars, proc, moduleInitialized,
                 lastProcessedNotificationId, activeConnections, attachedAt,
                 extVars, kvControllers, activeControllers,
                 activeWebRTCConnections, sweep, removed, nextReg>>

\* the callback of the timer of controller-activate: cleanupInactiveClients()
DelayedSweep(i, c) ==
  /\ NoSweep
  /\ \E t \in sweepTimers :
       /\ t.inst = i /\ t.id = c /\ t.due <= now
       /\ sweepTimers' = sweepTimers \ {t}
  /\ SweepBegin(i, "controller-activate timer")
  /\ UNCHANGED <<handled, lastOp, pollingIntervals, sock, socketOf, timerOf,
                 now, kvVars, proc, sigVars, extVars, kvConnections,
                 kvControllers, activeControllers, activeWebRTCConnections,
                 removed, nextReg>>

\* onmessage, case controller-deactivate, from the socket of c on instance
\* i: if getActiveController() === clientId, broadcastControllerChange(null).
\* The ControllerRecord is not deleted and no ChangeNotification is created.
ControllerDeactivate(i, c) ==
  /\ NoSweep
  /\ handled.n < MaxFrames
  /\ c \in activeConnections[i]
  /\ GetActiveReturns
  /\ kvConnections' = [kvConnections EXCEPT ![c] = RefreshedClient(@, now)]
  /\ IF isController(c) /\ ActiveControllerId(kvActive) = c
     THEN Broadcast(i, Null, 0)
     ELSE UNCHANGED received
  /\ handled' = HandledFrame("controller-deactivate", i, c, <<>>)
  /\ UNCHANGED <<lastOp, sweepTimers, pollingIntervals, sock, socketOf,
                 timerOf, now, kvVars, proc, moduleInitialized,
                 lastProcessedNotificationId, activeConnections, attachedAt,
                 extVars, kvControllers, activeControllers,
                 activeWebRTCConnections, sweep, removed, nextReg>>

\* faulty variant: a frame of an unknown verb costs the sender its record
DroppedFrameRecords_Deleted(c) == [kvConnections EXCEPT ![c] = NoRec]

\* onmessage before the switch, for a frame no case takes: the ClientRecords
\* after the lastSeen refresh of the sender
DroppedFrameRecords(c) ==
  [kvConnections EXCEPT ![c] = RefreshedClient(@, now)]

\* onmessage with a verb that no case of the switch takes (default: the
\* frame is logged), from the socket of c on instance i
UnknownVerb(i, c) ==
  /\ NoSweep
  /\ handled.n < MaxFrames
  /\ c \in activeConnections[i]
  /\ kvConnections' = DroppedFrameRecords(c)
  /\ handled' = HandledFrame("unknown", i, c, <<>>)
  /\ UNCHANGED <<lastOp, sweepTimers, pollingIntervals, sock, socketOf,
                 timerOf, now, kvVars, proc, sigVars, extVars, kvControllers,
                 activeControllers, activeWebRTCConnections, sweep, removed,
                 nextReg>>

\* onmessage with data that is not JSON: JSON.parse throws before anything
\* is read or written, the catch logs the error
MalformedFrame(i, c) ==
  /\ NoSweep
  /\ handled.n < MaxFrames
  /\ c \in activeConnections[i]
  /\ handled' = HandledFrame("malformed", i, c, <<>>)
  /\ UNCHANGED <<lastOp, sweepTimers, pollingIntervals, sock, socketOf,
                 timerOf, now, kvVars, proc, sigVars, extVars, regVars>>

\* ------------------ signal.ts: sockets told apart, handlers step by step
\* registerConnection and unregisterConnection are cut at their awaits, so
\* that the close handler of one socket runs between the steps of the
\* register handler of another. One register handler runs at a time.

\* Deno.upgradeWebSocket: the socket s is opened on instance i
Upgrade(s, i) ==
  /\ sock[s].state = "unopened"
  /\ sock' = [sock EXCEPT ![s] = [NoSocketYet EXCEPT !.state = "open",
                                                     !.inst = i]]
  /\ UNCHANGED <<handled, lastOp, sweepTimers, pollingIntervals, socketOf,
                 timerOf, now, kvVars, proc, sigVars, extVars, regVars>>

\* no register handler is in flight
NoRegistering == \A s \in Sockets : sock[s].reg = "idle"

\* onmessage, case register, on the open socket s: the lastSeen refresh of
\* the id the closure holds, clientId = message.id, and registerConnection
\* up to kv.get(connectionKey)
RegisterFrame(s, c, isReconnect) ==
  LET recs == IF sock[s].clientId = Null THEN kvConnections
              ELSE [kvConnections EXCEPT
                      ![sock[s].clientId] = RefreshedClient(@, now)]
  IN
  /\ sock[s].state = "open"
  /\ NoRegistering
  /\ nextReg <= MaxRegister
  /\ kvConnections' = recs
  /\ sock' = [sock EXCEPT ![s].clientId = c, ![s].id = c,
                          ![s].isReconnect = isReconnect,
                          ![s].existing = recs[c], ![s].replaced = NoSocket,
                          ![s].reg = "check"]
  /\ UNCHANGED <<handled, lastOp, sweepTimers, pollingIntervals, socketOf,
                 timerOf, now, kvVars, proc, sigVars, extVars, kvControllers,
                 activeControllers, activeWebRTCConnections, sweep, removed,
                 nextReg>>

\* registerConnection: existingConnection = activeConnections.get(id); if
\* it is another socket, existingConnection.close(1000, "Replaced by new
\* connection") and the wait of 100 ms begins
RegisterReplace(s) ==
  LET i == sock[s].inst
      c == sock[s].id
      old == socketOf[i][c]
  IN
  /\ sock[s].reg = "check"
  /\ IF old # NoSocket /\ old # s
     THEN /\ sock' = [sock EXCEPT
                       ![s].reg = "wait", ![s].replaced = old,
                       ![old].state = IF @ = "open" THEN "closing" ELSE @,
                       ![old].code = IF sock[old].state = "open"
                                     THEN 1000 ELSE @]
          /\ notOpen' = [notOpen EXCEPT ![i] = @ \cup {c}]
     ELSE /\ sock' = [sock EXCEPT ![s].reg = "set"]
          /\ UNCHANGED notOpen
  /\ UNCHANGED <<handled, lastOp, sweepTimers, pollingIntervals, socketOf,
                 timerOf, now, kvVars, proc, sigVars, kvMessages, nextMsg,
                 drain, relayLog, regVars>>

\* registerConnection: the 100 ms have passed
RegisterResume(s) ==
  /\ sock[s].reg = "wait"
  /\ sock' = [sock EXCEPT ![s].reg = "set"]
  /\ UNCHANGED <<handled, lastOp, sweepTimers, pollingIntervals, socketOf,
                 timerOf, now, kvVars, proc, sigVars, extVars, regVars>>

\* registerConnection: kv.set(connectionKey, ...) of the record made from
\* the record read at the start
RegisterStore(s) ==
  LET c == sock[s].id IN
  /\ sock[s].reg = "set"
  /\ kvConnections' = [kvConnections EXCEPT ![c] =
       RegisteredRecord(sock[s].existing, sock[s].inst, sock[s].isReconnect,
                        now, now, c)]
  /\ sock' = [sock EXCEPT ![s].reg = "attach"]
  /\ UNCHANGED <<handled, lastOp, sweepTimers, pollingIntervals, socketOf,
                 timerOf, now, kvVars, proc, sigVars, extVars, kvControllers,
                 activeControllers, activeWebRTCConnections, sweep, removed,
                 nextReg>>

\* registerConnection from activeConnections.set(id, socket) to the polling
\* timer, and the rest of the handler: processMessages and the replies, both
\* of which need the socket to be OPEN
RegisterAttach(s) ==
  LET i == sock[s].inst
      c == sock[s].id
      open == sock[s].state = "open"
      frames == IF open THEN DrainedFrames(c) ELSE received
      queues == IF open THEN DrainedQueues(c) ELSE kvMessages
  IN
  /\ sock[s].reg = "attach"
  /\ sock' = [sock EXCEPT ![s].reg = "idle"]
  /\ socketOf' = [socketOf EXCEPT ![i][c] = s]
  /\ timerOf' = [timerOf EXCEPT ![i][c] = s]
  /\ activeConnections' = [activeConnections EXCEPT ![i] = @ \cup {c}]
  /\ pollingIntervals' = [pollingIntervals EXCEPT ![i] = @ \cup {c}]
  /\ notOpen' = [notOpen EXCEPT ![i] = IF open THEN @ \ {c} ELSE @ \cup {c}]
  /\ IF isController(c)
     THEN /\ activeControllers' = [activeControllers EXCEPT ![i] = @ \cup {c}]
          /\ kvControllers' = [kvControllers EXCEPT
               ![c] = DirectoryRecord(
                        RegisteredRecord(sock[s].existing, i,
                                         sock[s].isReconnect, now, now, c))]
          /\ received' = frames
          /\ kvMessages' = queues
     ELSE /\ NotifyControllers(i,
               Notice(IF sock[s].isReconnect THEN "client-reconnected"
                      ELSE "client-connected", c),
               frames, queues)
          /\ UNCHANGED <<activeControllers, kvControllers>>
  /\ handled' = [handled EXCEPT
       !.verb = "register", !.inst = i, !.id = c,
       !.replies = IF open
                   THEN RegisterReplies(i, c, kvConnections[c],
                                        sock[s].isReconnect, kvConnections,
                                        kvActive)
                   ELSE <<>>]
  /\ lastOp' = [lastOp EXCEPT ![c] = "register"]
  /\ nextReg' = nextReg + 1
  /\ UNCHANGED <<sweepTimers, now, kvVars, proc, moduleInitialized,
                 lastProcessedNotificationId, attachedAt, nextMsg, drain,
                 relayLog, kvConnections, activeWebRTCConnections, sweep,
                 removed>>

\* onmessage of a frame other than register on the open socket s whose
\* closure holds an id: existingData = await kv.get(connectionKey)
RefreshRead(s) ==
  /\ sock[s].state = "open"
  /\ sock[s].clientId # Null
  /\ sock[s].reg = "idle"
  /\ sock[s].refresh = "idle"
  /\ sock' = [sock EXCEPT ![s].refresh = "read",
                          ![s].key = sock[s].clientId,
                          ![s].seen = kvConnections[sock[s].clientId]]
  /\ UNCHANGED <<handled, lastOp, sweepTimers, pollingIntervals, socketOf,
                 timerOf, now, kvVars, proc, sigVars, extVars, regVars>>

\* the same handler after the await: if (existingData.value) kv.set of
\* the record that was read with lastSeen: Date.now(); the verb itself
\* changes nothing more
RefreshWrite(s) ==
  /\ sock[s].refresh = "read"
  /\ kvConnections' =
       IF sock[s].seen = NoRec THEN kvConnections
       ELSE [kvConnections EXCEPT
               ![sock[s].key] = RefreshedClient(sock[s].seen, now)]
  /\ sock' = [sock EXCEPT ![s].refresh = "idle", ![s].key = Null,
                          ![s].seen = NoRec]
  /\ UNCHANGED <<handled, lastOp, sweepTimers, pollingIntervals, socketOf,
                 timerOf, now, kvVars, proc, sigVars, extVars, kvControllers,
                 activeControllers, activeWebRTCConnections, sweep, removed,
                 nextReg>>

\* the close event of socket s, while no register handler of s is in
\* flight: the client closed it, or the closing handshake of a socket the
\* server closed has ended. onclose calls unregisterConnection(clientId) if
\* the closure holds an id.
CloseEvent(s) ==
  LET i == sock[s].inst IN
  /\ sock[s].state \in {"open", "closing"}
  /\ sock[s].reg = "idle"
  /\ sock' = [sock EXCEPT
       ![s].state = "closed",
       ![s].closing = IF sock[s].clientId = Null THEN "done" ELSE "delete"]
  /\ notOpen' = [notOpen EXCEPT
       ![i] = @ \cup {c \in ClientIds : socketOf[i][c] = s}]
  /\ UNCHANGED <<handled, lastOp, sweepTimers, pollingIntervals, socketOf,
                 timerOf, now, kvVars, proc, sigVars, kvMessages, nextMsg,
                 drain, relayLog, regVars>>

\* unregisterConnection(clientId) of the closed socket s:
\* kv.delete(connectionKey)
CloseDelete(s) ==
  /\ sock[s].closing = "delete"
  /\ kvConnections' = [kvConnections EXCEPT ![sock[s].clientId] = NoRec]
  /\ sock' = [sock EXCEPT ![s].closing = "detach"]
  /\ UNCHANGED <<handled, lastOp, sweepTimers, pollingIntervals, socketOf,
                 timerOf, now, kvVars, proc, sigVars, extVars, kvControllers,
                 activeControllers, activeWebRTCConnections, sweep, removed,
                 nextReg>>

\* unregisterConnection(clientId) of the closed socket s, from
\* activeConnections.delete(id) to the end: the entries are deleted under
\* the id, whichever socket they hold
CloseDetach(s) ==
  LET i == sock[s].inst
      c == sock[s].clientId
  IN
  /\ sock[s].closing = "detach"
  /\ sock' = [sock EXCEPT ![s].closing = "done"]
  /\ socketOf' = [socketOf EXCEPT ![i][c] = NoSocket]
  /\ timerOf' = [timerOf EXCEPT ![i][c] = NoSocket]
  /\ activeConnections' = [activeConnections EXCEPT ![i] = @ \ {c}]
  /\ pollingIntervals' = [pollingIntervals EXCEPT ![i] = @ \ {c}]
  /\ notOpen' = [notOpen EXCEPT ![i] = @ \ {c}]
  /\ IF isController(c)
     THEN /\ activeControllers' = [activeControllers EXCEPT ![i] = @ \ {c}]
          /\ kvControllers' = [kvControllers EXCEPT ![c] = NoRec]
          /\ UNCHANGED <<received, kvMessages>>
     ELSE /\ NotifyControllers(i, Notice("client-disconnected", c),
                               received, kvMessages)
          /\ UNCHANGED <<activeControllers, kvControllers>>
  /\ lastOp' = [lastOp EXCEPT ![c] = "unregister"]
  /\ UNCHANGED <<handled, sweepTimers, now, kvVars, proc, moduleInitialized,
                 lastProcessedNotificationId, attachedAt, nextMsg, drain,
                 relayLog, kvConnections, activeWebRTCConnections, sweep,
                 removed, nextReg>>

\* handler GET on instance i before the upgrade: initializeModule() starts
\* the notification poller of the instance once
InitializeModule(i) ==
  /\ ~moduleInitialized[i]
  /\ moduleInitialized' = [moduleInitialized EXCEPT ![i] = TRUE]
  /\ UNCHANGED <<sockVars, regVars, extVars, now, kvVars, proc,
                 lastProcessedNotificationId, activeConnections, received,
                 attachedAt>>

\* ------------------------------------------------------- specifications

Init ==
  /\ now = StartMs
  /\ kvActive = NoRec
  /\ kvNotification = NoRec
  /\ kvLock = NoRec
  /\ kvLegacyActive = NoRec
  /\ kvLegacyNotification = NoRec
  /\ nextUuid = 1
  /\ published = {}
  /\ proc = [p \in Procs |-> IdleProc]
  /\ moduleInitialized = [i \in Instances |-> FALSE]
  /\ lastProcessedNotificationId = [i \in Instances |-> 0]
  /\ activeConnections = [i \in Instances |-> {}]
  /\ received = [c \in ClientIds |-> <<>>]
  /\ attachedAt = [s \in SynthIds |-> 0]
  /\ notOpen = [i \in Instances |-> {}]
  /\ kvMessages = {}
  /\ nextMsg = 1
  /\ drain = [d \in DrainSlots |-> IdleDrain]
  /\ relayLog = <<>>
  /\ kvConnections = [c \in ClientIds |-> NoRec]
  /\ kvControllers = [c \in RegistryControllers |-> NoRec]
  /\ activeControllers = [i \in Instances |-> {}]
  /\ activeWebRTCConnections =
       [i \in Instances |-> [c \in RegistryControllers |-> {}]]
  /\ sweep = IdleSweep
  /\ removed = {}
  /\ nextReg = 1
  /\ handled = NoFrame
  /\ lastOp = [c \in ClientIds |-> "none"]
  /\ sweepTimers = {}
  /\ pollingIntervals = [i \in Instances |-> {}]
  /\ sock = [s \in Sockets |-> NoSocketYet]
  /\ socketOf = [i \in Instances |-> [c \in ClientIds |-> NoSocket]]
  /\ timerOf = [i \in Instances |-> [c \in ClientIds |-> NoSocket]]

Start(p, hist) ==
  \/ StartLockPOST(p, hist)
  \/ StartLockGET(p, hist)
  \/ StartLockDELETE(p, hist)
  \/ StartClearGET(p, hist)
  \/ StartStatusPOST(p, hist)
  \/ StartStatusGET(p, hist)
  \/ StartStatusDELETE(p, hist)
  \/ StartRegister(p, hist)

Step(p) ==
  \/ MgrGet(p)
  \/ ClearDelete(p)
  \/ ClearNotify(p)
  \/ SetRefresh(p)
  \/ SetNew(p)
  \/ SetNotify(p)
  \/ ForceDelete(p)
  \/ ForceNotify(p)
  \/ LockPostWriteLock(p)
  \/ LockGetRead(p)
  \/ LockDeleteLock(p)
  \/ ClearGetReads(p)
  \/ ClearDeleteLock(p)
  \/ ClearDeleteOld(p)
  \/ LegacyGet(p)
  \/ LegacyExpireDelete(p)
  \/ LegacyExpireNotify(p)
  \/ LegacySetRefresh(p)
  \/ LegacySetNew(p)
  \/ LegacySetNotify(p)
  \/ LegacyClearDelete(p)
  \/ RegisterConnection(p)
  \/ Respond(p)

\* requests are served one at a time, each to completion
Next ==
  \/ AllFree /\ Tick
  \/ AllFree /\ Start("p1", TRUE)
  \/ AllFree /\ \E i \in Instances : CheckNotifications(i)
  \/ \E p \in Procs : Step(p)

Spec == Init /\ [][Next]_vars

\* The leadership operations of manager.ts (POST and DELETE
\* /controller/lock, GET /controller/clear), the register verb and the
\* pollers, served concurrently: their KV operations interleave.  A burst of
\* overlapping requests: a slot serves one leadership request, and is free
\* again only after a socket registration; the burst is shorter than TickMs.
StartConc(p) ==
  \/ StartLockPOST(p, FALSE)
  \/ StartLockDELETE(p, FALSE)
  \/ StartClearGET(p, FALSE)
  \/ StartRegister(p, FALSE)

StepConc(p) ==
  \/ MgrGet(p)
  \/ ClearDelete(p)
  \/ ClearNotify(p)
  \/ SetRefresh(p)
  \/ SetNew(p)
  \/ SetNotify(p)
  \/ ForceDelete(p)
  \/ ForceNotify(p)
  \/ LockPostWriteLock(p)
  \/ LockDeleteLock(p)
  \/ ClearGetReads(p)
  \/ ClearDeleteLock(p)
  \/ ClearDeleteOld(p)
  \/ RegisterConnection(p)
  \/ proc[p].op = "register" /\ Respond(p)

NextConc ==
  \/ \E p \in Procs : StartConc(p)
  \/ \E i \in Instances : CheckNotifications(i)
  \/ \E p \in Procs : StepConc(p)

SpecConc == Init /\ [][NextConc]_vars

\* one request at a time, and a handler that can take a step takes it
SpecFair == Init /\ [][Next]_vars /\ \A p \in Procs : WF_vars(Step(p))

\* The relay: sockets come and go, and registered senders send offer /
\* answer / ice-candidate frames.
NextRelay ==
  \/ \E i \in Instances, c \in RelayIds : SocketOpen(i, c)
  \/ \E i \in Instances, c \in RelayIds : SocketClosing(i, c)
  \/ \E i \in Instances, c \in RelayIds : SocketClosed(i, c)
  \/ \E i \in Instances, sender \in RelayIds, target \in RelayIds,
        type \in RelayTypes, claimed \in RelayIds :
          Relay(i, sender, target, type, claimed)

SpecRelay == Init /\ [][NextRelay]_vars

\* The message queue of one recipient: its socket comes and goes, handlers
\* call queueMessage for it, and runs of processMessages overlap.
NextQueue ==
  \/ Tick
  \/ \E i \in Instances, c \in SynthIds : SocketOpen(i, c)
  \/ \E i \in Instances, c \in SynthIds : SocketClosing(i, c)
  \/ \E i \in Instances, c \in SynthIds : SocketClosed(i, c)
  \/ \E c \in SynthIds : QueueCall(c)
  \/ \E d \in DrainSlots, i \in Instances, c \in SynthIds : StartDrain(d, i, c)
  \/ \E d \in DrainSlots : DrainList(d)
  \/ \E d \in DrainSlots : DrainDelete(d)

SpecQueue == Init /\ [][NextQueue]_vars

\* The client registry: a synth and a controller register, register again,
\* refresh their records and leave, on either instance.
NextRegistry ==
  \/ Tick
  \/ \E i \in Instances, c \in RelayIds, isReconnect \in BOOLEAN,
        timestamp \in ClientTimestamps :
          Register(i, c, isReconnect, timestamp)
  \/ \E i \in Instances, c \in RelayIds : Unregister(i, c)
  \/ \E i \in Instances, c \in RelayIds : Refresh(i, c)
  \/ \E i \in Instances, c \in RelayIds : Heartbeat(i, c)
  \/ \E i \in Instances, c \in RelayIds : Poll(i, c)

SpecRegistry == Init /\ [][NextRegistry]_vars

\* The reaper: clients register on either instance, controllers report
\* their connections and send controller-heartbeat, and the reaper sweeps.
\* A client registers when it has no ClientRecord.
NextReaper ==
  \/ NoSweep /\ Tick
  \/ \E i \in Instances, c \in SynthIds \cup RegistryControllers :
        kvConnections[c] = NoRec /\ Register(i, c, FALSE, 0)
  \/ \E i \in Instances, c \in SynthIds : Refresh(i, c)
  \/ \E i \in Instances, c \in RegistryControllers,
        connections \in SUBSET SynthIds :
          ControllerConnections(i, c, connections)
  \/ \E i \in Instances, c \in RegistryControllers :
          ControllerHeartbeat(i, c)
  \/ SweepList
  \/ SweepDelete
  \/ SweepEnd
  \/ SweepReturn

SpecReaper == Init /\ [][NextReaper]_vars

\* the WebRTC reports of controllers that register, report and unregister,
\* and the sweeps their reports start
NextReports ==
  \/ NoSweep /\ Tick
  \/ \E i \in Instances, c \in SynthIds \cup RegistryControllers :
        kvConnections[c] = NoRec /\ Register(i, c, FALSE, 0)
  \/ \E i \in Instances, c \in RegistryControllers : Unregister(i, c)
  \/ \E i \in Instances, c \in RegistryControllers,
        connections \in SUBSET SynthIds :
          ControllerConnections(i, c, connections)
  \/ SweepList
  \/ SweepDelete
  \/ SweepEnd
  \/ SweepReturn

SpecReports == Init /\ [][NextReports]_vars

\* the ids a relayed frame may name as its target: message.target is any
\* string, registered or not
RelayTargets == RelayIds \cup {<<"synth-", "y">>}

\* registered sockets that relay offers, answers and candidates
NextOffers ==
  \/ \E i \in Instances, c \in RelayIds :
        lastOp[c] = "none" /\ Register(i, c, FALSE, 0)
  \/ \E i \in Instances, c \in RelayIds : Unregister(i, c)
  \/ \E i \in Instances, sender \in RelayIds, target \in RelayTargets,
        type \in RelayTypes :
          Relay(i, sender, target, type, sender)

SpecOffers == Init /\ [][NextOffers]_vars

\* the sessions that acquire the lock: one whose id is the id a controller
\* registers under, and one whose id is no client id
VerbSessions == ControllerIds \cup {<<"a">>}

\* The verbs of the leadership and the dropped frames: a synth and a
\* controller each register once and may close their sockets, a session
\* acquires the lock over HTTP, registered clients send controller-activate
\* and controller-deactivate, frames no case takes arrive, and the delayed
\* sweep runs. Handlers are served one at a time, each to completion.
NextVerbs ==
  \/ AllFree /\ NoSweep /\ Tick
  \/ AllFree /\ \E i \in Instances, c \in RelayIds :
        lastOp[c] = "none" /\ Register(i, c, FALSE, 0)
  \/ AllFree /\ \E i \in Instances, c \in RelayIds : Unregister(i, c)
  \/ AllFree /\ NoSweep /\ \E sid \in VerbSessions :
        LockPOSTFrom("p1", "i1", sid)
  \/ MgrGet("p1")
  \/ SetNew("p1")
  \/ SetNotify("p1")
  \/ LockPostWriteLock("p1")
  \/ Respond("p1")
  \/ AllFree /\ \E i \in Instances, c \in RelayIds : ControllerActivate(i, c)
  \/ AllFree /\ \E i \in Instances, c \in RelayIds : ControllerDeactivate(i, c)
  \/ AllFree /\ \E i \in Instances, c \in RelayIds : UnknownVerb(i, c)
  \/ AllFree /\ \E i \in Instances, c \in RelayIds : MalformedFrame(i, c)
  \/ AllFree /\ \E i \in Instances, c \in ControllerIds : DelayedSweep(i, c)
  \/ SweepList
  \/ SweepDelete
  \/ SweepEnd
  \/ SweepReturn

SpecVerbs == Init /\ [][NextVerbs]_vars

\* the three senders of active-controller frames: the register reply, the
\* broadcast of controller-activate and the broadcast of the poller after
\* a POST /api/controller/lock
NextFrames ==
  \/ AllFree /\ \E i \in Instances : InitializeModule(i)
  \/ AllFree /\ \E i \in Instances, c \in RelayIds :
        /\ moduleInitialized[i]
        /\ lastOp[c] = "none"
        /\ Register(i, c, FALSE, 0)
  \/ AllFree /\ \E sid \in VerbSessions : LockPOSTFrom("p1", "i1", sid)
  \/ MgrGet("p1")
  \/ SetNew("p1")
  \/ SetNotify("p1")
  \/ LockPostWriteLock("p1")
  \/ Respond("p1")
  \/ AllFree /\ \E i \in Instances : CheckNotifications(i)
  \/ AllFree /\ \E i \in Instances, c \in ControllerIds :
        ControllerActivate(i, c)

SpecFrames == Init /\ [][NextFrames]_vars

\* the ids the two sockets register under
SocketClients == SynthIds \cup {<<"synth-", "y">>} \cup ControllerIds

\* Two sockets on one instance: each is opened once, sends register frames
\* under any id, and is closed by its client or by a replacement. The close
\* handlers run at any time after the close; the clock advances while no
\* register handler is in flight.
NextSockets ==
  \/ NoRegistering /\ Tick
  \/ \E s \in Sockets : Upgrade(s, "i1")
  \/ \E s \in Sockets, c \in SocketClients : RegisterFrame(s, c, FALSE)
  \/ \E s \in Sockets : RegisterReplace(s)
  \/ \E s \in Sockets : RegisterResume(s)
  \/ \E s \in Sockets : RegisterStore(s)
  \/ \E s \in Sockets : RegisterAttach(s)
  \/ \E s \in Sockets : CloseEvent(s)
  \/ \E s \in Sockets : CloseDelete(s)
  \/ \E s \in Sockets : CloseDetach(s)

SpecSockets == Init /\ [][NextSockets]_vars

\* the sockets of one synth: registers, closes, and frames whose lastSeen
\* refresh runs in two steps, interleaved
NextRefresh ==
  \/ NoRegistering /\ Tick
  \/ \E s \in Sockets : Upgrade(s, "i1")
  \/ \E s \in Sockets, c \in SynthIds : RegisterFrame(s, c, FALSE)
  \/ \E s \in Sockets : RegisterReplace(s)
  \/ \E s \in Sockets : RegisterResume(s)
  \/ \E s \in Sockets : RegisterStore(s)
  \/ \E s \in Sockets : RegisterAttach(s)
  \/ \E s \in Sockets : RefreshRead(s)
  \/ \E s \in Sockets : RefreshWrite(s)
  \/ \E s \in Sockets : CloseEvent(s)
  \/ \E s \in Sockets : CloseDelete(s)
  \/ \E s \in Sockets : CloseDetach(s)

SpecRefresh == Init /\ [][NextRefresh]_vars


\* ------------------------------------------------------------ properties

\* handler p of kind op has answered 200
Done(p, op) ==
  proc[p].pc = "done" /\ proc[p].op = op /\ proc[p].resp.status = 200

\* the request of p arrived while rec was a non-expired record naming id
WasLeader(p, rec, id) == Live(rec, proc[p].pre.now) /\ rec.id = id

\* the request of p arrived while rec was a non-expired record not naming id
WasOtherLeader(p, rec, id) == Live(rec, proc[p].pre.now) /\ rec.id # id

\* C1: in every reachable state at most one non-expired ControllerRecord
\* exists in the KV, whichever endpoint wrote it.
C1_AtMostOneLiveRecord ==
  ~(Live(kvActive, now) /\ Live(kvLegacyActive, now))

\* C2: while a non-expired leader L exists, POST /controller/lock with
\* heartbeat:true from another id returns changed=false, leaves the
\* ControllerRecord and the ChangeNotification as they were, and answers
\* isActive=false, activeController=L.
C2_NonLeaderHeartbeatRejected ==
  \A p \in Procs :
    (Done(p, "lockPOST") /\ proc[p].hb
       /\ WasOtherLeader(p, proc[p].pre.active, proc[p].id))
    => /\ ~proc[p].resp.changed
       /\ kvActive = proc[p].pre.active
       /\ kvNotification = proc[p].pre.notification
       /\ published = proc[p].pre.published
       /\ proc[p].emitted = 0
       /\ ~proc[p].resp.isActive
       /\ proc[p].resp.activeController = proc[p].pre.active.id

C2_Witness ==
  \E p \in Procs :
    /\ Done(p, "lockPOST") /\ proc[p].hb
    /\ WasOtherLeader(p, proc[p].pre.active, proc[p].id)
    /\ proc[p].pre.notification # NoRec

\* C3: a heartbeat only refreshes the current leader: after
\* setActive(id, isHeartbeat=true) the ControllerRecord names id only if it
\* named id before; a heartbeat never creates a ControllerRecord and never
\* emits a ChangeNotification.
C3_HeartbeatOnlyRefreshes ==
  \A p \in Procs :
    (Done(p, "lockPOST") /\ proc[p].hb)
    => /\ (kvActive # NoRec /\ kvActive.id = proc[p].id)
            => (proc[p].pre.active # NoRec
                /\ proc[p].pre.active.id = proc[p].id)
       /\ (proc[p].pre.active = NoRec => kvActive = NoRec)
       /\ published = proc[p].pre.published

\* C4: if the ControllerRecord is more than HEARTBEAT_TIMEOUT older than
\* now, the next getActive() returns null, having deleted the record and
\* published a null ChangeNotification.
C4_ExpiredReadClears ==
  \A p \in Procs :
    (proc[p].pc = "ga" /\ kvActive # NoRec /\ Expired(kvActive, now))
    ~> (/\ proc[p].pc # "ga"
        /\ kvActive = NoRec
        /\ kvNotification # NoRec
        /\ kvNotification.controllerId = Null)

\* C5: setActive(id, isHeartbeat=false) with id different from the current
\* leader, or with no leader, overwrites the ControllerRecord with id,
\* publishes exactly one ChangeNotification, whose controllerId is id and
\* whose notificationId is fresh, and returns changed=true.  Stated of the
\* POST /controller/lock requests that were answered, against the KV as it
\* was when the request arrived.
C5_ActivateOverwritesAndNotifies ==
  \A p \in Procs :
    (Done(p, "lockPOST") /\ ~proc[p].hb
       /\ (proc[p].pre.active = NoRec \/ proc[p].pre.active.id # proc[p].id))
    => /\ proc[p].resp.changed
       /\ kvActive # NoRec
       /\ kvActive.id = proc[p].id
       /\ kvNotification # NoRec
       /\ kvNotification.controllerId = proc[p].id
       /\ kvNotification.notificationId >= proc[p].pre.nextUuid
       /\ published \ proc[p].pre.published = {kvNotification.notificationId}
       /\ proc[p].emitted = 1

C5_Witness ==
  \E p \in Procs :
    /\ Done(p, "lockPOST") /\ ~proc[p].hb
    /\ WasOtherLeader(p, proc[p].pre.active, proc[p].id)
    /\ proc[p].resp.changed

\* C6: setActive(id) where id is already the non-expired leader returns
\* changed=false, changes only the timestamp of the ControllerRecord (id and
\* instanceId stay) and leaves the ChangeNotification as it was.
C6_SameLeaderIdempotent ==
  \A p \in Procs :
    (Done(p, "lockPOST") /\ WasLeader(p, proc[p].pre.active, proc[p].id))
    => /\ ~proc[p].resp.changed
       /\ kvActive # NoRec
       /\ kvActive.id = proc[p].pre.active.id
       /\ kvActive.instanceId = proc[p].pre.active.instanceId
       /\ kvActive.timestamp = now
       /\ kvNotification = proc[p].pre.notification
       /\ published = proc[p].pre.published
       /\ proc[p].emitted = 0

C6_Witness ==
  \E p \in Procs :
    /\ Done(p, "lockPOST") /\ WasLeader(p, proc[p].pre.active, proc[p].id)
    /\ proc[p].pre.active.timestamp < now
    /\ proc[p].pre.active.instanceId # proc[p].inst

\* what clear(id) must have done when it answered
ClearContract(p, rec, notif, preRec, preNotif) ==
  IF WasLeader(p, preRec, proc[p].id)
  THEN /\ proc[p].resp.success
       /\ rec = NoRec
       /\ notif # NoRec
       /\ notif.controllerId = Null
       /\ notif.notificationId >= proc[p].pre.nextUuid
  ELSE /\ ~proc[p].resp.success
       /\ rec = preRec
       /\ notif = preNotif

\* C7: clear(id) deletes the ControllerRecord and publishes a null
\* ChangeNotification exactly when id is the current non-expired leader; for
\* any other id it returns false and leaves both as they were.  Stated for the
\* clear of manager.ts (DELETE /controller/lock) and the clear of status.ts.
C7_ClearOnlyByLeader ==
  \A p \in Procs :
    /\ Done(p, "lockDELETE")
         => ClearContract(p, kvActive, kvNotification,
                          proc[p].pre.active, proc[p].pre.notification)
    /\ Done(p, "statusDELETE")
         => ClearContract(p, kvLegacyActive, kvLegacyNotification,
                          proc[p].pre.legacyActive,
                          proc[p].pre.legacyNotification)

\* C8: GET /controller/clear?admin_mode=true leaves no ControllerRecord and
\* a null ChangeNotification whatever the prior state; without
\* admin_mode=true the answer is 401 and neither is changed.
C8_ForceResetAlwaysClears ==
  /\ [](\A p \in Procs :
          (proc[p].pc = "done" /\ proc[p].op = "clearGET"
             /\ proc[p].mode # "true")
          => /\ proc[p].resp.status = 401
             /\ kvActive = proc[p].pre.active
             /\ kvNotification = proc[p].pre.notification)
  /\ \A p \in Procs :
       (proc[p].op = "clearGET" /\ proc[p].pc = "ga")
       ~> (/\ proc[p].pc = "done"
           /\ kvActive = NoRec
           /\ kvNotification # NoRec
           /\ kvNotification.controllerId = Null)

\* the number of frames sent to synth s for notification n
FramesFor(s, n) ==
  Cardinality({k \in 1..Len(received[s]) : received[s][k].nid = n})

\* C9: for every ChangeNotification n that is published, every synth socket
\* attached to an instance receives exactly one active-controller frame for
\* n: once the poller of the instance has gone past n, a synth attached
\* since before n was published has exactly one frame for n.
C9_ExactlyOneFramePerNotification ==
  \A i \in Instances, s \in SynthIds, n \in published :
    (s \in activeConnections[i] /\ attachedAt[s] <= n
       /\ lastProcessedNotificationId[i] >= n)
    => FramesFor(s, n) = 1

\* every request has been answered and every poller has seen the stored
\* notification
Quiescent == (\A p \in Procs : proc[p].pc \in {"idle", "done"}) /\ \A i \in Instances : PollerCaughtUp(i)

\* C10: after all concurrent leadership operations have completed and every
\* poller has run, the controllerId of the stored ChangeNotification, and of
\* the last active-controller frame each attached synth received, is the id
\* of the current ControllerRecord (null if none).
C10_NotificationConverges ==
  Quiescent =>
    /\ kvNotification # NoRec => kvNotification.controllerId = IdOf(kvActive)
    /\ kvNotification = NoRec => kvActive = NoRec
    /\ \A i \in Instances : \A s \in activeConnections[i] :
         Len(received[s]) > 0
           => received[s][Len(received[s])].controllerId = IdOf(kvActive)

\* the positions of received[c] that hold the envelope numbered m
FramesOf(c, m) == {k \in 1..Len(received[c]) : received[c][k].seq = m}

\* the envelopes that were queued for c: in SpecQueue every envelope is
Queued(c) == 1..(nextMsg - 1)

\* C11: every queued message for recipient r is sent to r's socket exactly
\* once, for any interleaving of the polling ticks, the run made at register
\* and concurrent queueMessage calls: no envelope is sent to the socket of
\* its recipient twice.
C11_QueuedSentOnce ==
  \A c \in SynthIds : \A m \in Queued(c) : Cardinality(FramesOf(c, m)) <= 1

\* the position of the first frame that holds envelope m
FirstFrame(c, m) == CHOOSE k \in FramesOf(c, m) : \A j \in FramesOf(c, m) : k <= j

\* C12: messages queued for one recipient reach its socket in the order in
\* which they were queued: of two envelopes that were both sent, the one
\* queued first is sent first.
C12_QueueIsFifo ==
  \A c \in SynthIds : \A m1, m2 \in Queued(c) :
    (m1 < m2 /\ FramesOf(c, m1) # {} /\ FramesOf(c, m2) # {})
    => FirstFrame(c, m1) < FirstFrame(c, m2)

\* the queue entries that hold the envelope of log entry h
EntriesOf(h) ==
  {e \in kvMessages : e.target = h.target /\ e.msg.seq = h.env.seq}

C14_SourceIsBoundId ==
  /\ \A c \in RelayIds : \A k \in 1..Len(received[c]) :
       received[c][k].source = relayLog[received[c][k].seq].sender
  /\ \A e \in kvMessages : e.msg.source = relayLog[e.msg.seq].sender

C14_Witness ==
  \E m \in 1..Len(relayLog) :
    /\ relayLog[m].claimed # relayLog[m].sender
    /\ relayLog[m].path = "direct" /\ relayLog[m].sent
    /\ relayLog[m].target # relayLog[m].sender

\* C15: a signaling message whose direct send to the target's socket fails
\* is queued for the target instead of being lost.
C15_FailedSendIsQueued ==
  \A m \in 1..Len(relayLog) :
    (relayLog[m].path = "direct" /\ ~relayLog[m].sent)
    => EntriesOf(relayLog[m]) # {}


\* the reaper has worked through its list and has not yet returned
SweepDone == sweep.pc = "done"

\* the time the record rec has been connected for, at time t
AgeOf(rec, t) == t - rec.connectionTimestamp

\* C16: no sweep of the reaper, whichever verb triggered it, deletes the
\* ClientRecord of a synth whose age now - connectionTimestamp is below
\* CLIENT_GRACE_PERIOD_MS (15 s) at the time of the sweep.
C16_GraceImmunity ==
  \A r \in removed :
    r.rec # NoRec => AgeOf(r.rec, r.at) >= CLIENT_GRACE_PERIOD_MS

\* a sweep has run over a synth that is in its grace period and that no
\* controller reports, and the record is still there
C16_Witness ==
  /\ SweepDone
  /\ \E s \in SynthIds :
       /\ sweep.pre.kvConnections[s] # NoRec
       /\ AgeOf(sweep.pre.kvConnections[s], now) < CLIENT_GRACE_PERIOD_MS
       /\ s \notin sweep.held
       /\ kvConnections[s] = sweep.pre.kvConnections[s]

\* the client-disconnected notices for synth s that controller c has got,
\* on its socket or in its queue
DisconnectNotices(rcv, msgs, c, s) ==
  Cardinality({k \in 1..Len(rcv[c]) :
                 rcv[c][k] = Notice("client-disconnected", s)})
  + Cardinality({e \in msgs : e.target = c
                   /\ e.msg = Notice("client-disconnected", s)})

\* the controllers a notification of instance i goes to
NotifiedControllers(i) == DirectControllers(i) \cup QueuedControllers(i)

\* the synths in some controller's entry of the ActiveWebRTCMap of some
\* instance
HeldAnywhere ==
  UNION {activeWebRTCConnections[i][c] :
           i \in Instances, c \in RegistryControllers}

\* C17: a sweep deletes every synth ClientRecord that is past its grace
\* period and is in no controller's ActiveWebRTCMap entry, sends
\* client-disconnected with that clientId to the controllers for each
\* deletion, and deletes no synth that is in some controller's
\* ActiveWebRTCMap entry, whatever its lastSeen.
C17_SweepRemovesExactlyUnheld ==
  SweepDone =>
    \A s \in SynthIds :
      LET rec == sweep.pre.kvConnections[s] IN
      rec # NoRec =>
        /\ (AgeOf(rec, now) >= CLIENT_GRACE_PERIOD_MS /\ s \notin HeldAnywhere)
             => /\ kvConnections[s] = NoRec
                /\ \A c \in NotifiedControllers(sweep.inst) :
                     DisconnectNotices(received, kvMessages, c, s) =
                       DisconnectNotices(sweep.pre.received,
                                         sweep.pre.kvMessages, c, s) + 1
        /\ s \in HeldAnywhere => kvConnections[s] = rec

\* C18: the reaper never deletes the ClientRecord of a controller nor an
\* entry of the controller directory.
C18_ControllersNeverReaped ==
  /\ \A r \in removed : ~isController(r.id)
  /\ sweep.pc \in {"del", "done"} =>
       \A c \in RegistryControllers :
         /\ kvConnections[c] = sweep.pre.kvConnections[c]
         /\ kvControllers[c] = sweep.pre.kvControllers[c]

\* a sweep that deleted a record has passed over a controller that is past
\* its grace period and in no reported set
C18_Witness ==
  /\ SweepDone
  /\ Len(sweep.toRemove) > 0
  /\ \E c \in RegistryControllers :
       /\ kvConnections[c] # NoRec
       /\ kvControllers[c] # NoRec
       /\ AgeOf(kvConnections[c], now) >= CLIENT_GRACE_PERIOD_MS

\* C19: a synth that a registered controller reports as peer-connected is
\* not deleted by a sweep that runs on another instance than the one whose
\* map holds that controller's report.
C19_NoCrossInstanceReap ==
  \A r \in removed : \A h \in r.reporters : h.inst = r.inst

\* C20: from its registration until its unregistration the
\* connectionTimestamp of a ClientRecord does not change: a registration
\* over an existing record (flagged as a reconnect or not, whatever
\* timestamp the frame carries), the refresh of every inbound message and
\* every heartbeat write back the connectionTimestamp the record held.
C20_ConnectionTimestampKept ==
  [][\A c \in ClientIds :
       (kvConnections[c] # NoRec /\ kvConnections'[c] # NoRec) =>
         kvConnections'[c].connectionTimestamp =
           kvConnections[c].connectionTimestamp]_vars

\* a client has registered again, flagged as a reconnect, later than its
\* first registration, and its record has been refreshed since
C20_Witness ==
  \E c \in ClientIds :
    /\ kvConnections[c] # NoRec
    /\ kvConnections[c].reconnectionCount >= 1
    /\ kvConnections[c].lastReconnectTime > kvConnections[c].connectionTimestamp
    /\ kvConnections[c].lastSeen > kvConnections[c].lastReconnectTime


\* the notices of one type about client s that controller c has got, on its
\* socket or in its queue
Notices(type, rcv, msgs, c, s) ==
  Cardinality({k \in 1..Len(rcv[c]) : rcv[c][k] = Notice(type, s)})
  + Cardinality({e \in msgs : e.target = c /\ e.msg = Notice(type, s)})

\* this step is a registerConnection(c, ...) that found a ClientRecord of c
RegistersOverPrior(c) ==
  /\ nextReg' # nextReg
  /\ kvConnections[c] # NoRec
  /\ kvConnections'[c] # kvConnections[c]

\* C21: when register finds a prior ClientRecord of the id, whether or not
\* the frame is flagged isReconnect, the record written keeps the prior
\* connectionTimestamp, has reconnectionCount = prior + 1 and
\* lastReconnectTime = now, and the controllers are told client-reconnected.
C21_PriorRecordIsReconnect ==
  [][\A c \in ClientIds :
       RegistersOverPrior(c) =>
         /\ kvConnections'[c] # NoRec
         /\ kvConnections'[c].connectionTimestamp =
              kvConnections[c].connectionTimestamp
         /\ kvConnections'[c].reconnectionCount =
              kvConnections[c].reconnectionCount + 1
         /\ kvConnections'[c].lastReconnectTime = now
         /\ ~isController(c) =>
              \A d \in NotifiedControllers(kvConnections'[c].instanceId) :
                Notices("client-reconnected", received', kvMessages', d, c) =
                  Notices("client-reconnected", received, kvMessages, d, c) + 1
    ]_vars


\* the frames this step adds to the socket of s that a poller sent for
\* notification nid
NewPollerFrames(s) ==
  {received'[s][k] : k \in (Len(received[s]) + 1)..Len(received'[s])}
    \cap {f \in {received'[s][k] : k \in 1..Len(received'[s])} :
            f.type = "active-controller" /\ f.nid # 0}

\* C30: a poller never broadcasts a ChangeNotification that is more than
\* 30 s old, never broadcasts a notification whose notificationId is the
\* last one it processed, and records a notification it skips as stale as
\* processed without sending a frame.
C30_StaleNotificationGuard ==
  [][/\ \A s \in SynthIds : \A f \in NewPollerFrames(s) :
          /\ kvNotification # NoRec
          /\ f.nid = kvNotification.notificationId
          /\ now - kvNotification.timestamp <= NOTIFICATION_MAX_AGE_MS
          /\ \E i \in Instances :
               /\ s \in activeConnections[i]
               /\ lastProcessedNotificationId[i] # f.nid
               /\ lastProcessedNotificationId'[i] = f.nid
     /\ \A i \in Instances :
          lastProcessedNotificationId'[i] # lastProcessedNotificationId[i] =>
            /\ kvNotification # NoRec
            /\ lastProcessedNotificationId'[i] = kvNotification.notificationId
            /\ now - kvNotification.timestamp > NOTIFICATION_MAX_AGE_MS
                 => received' = received
    ]_vars

\* a poller has met a notification more than 30 s old while a synth was
\* attached to its instance: the notification is recorded as processed and
\* the synth has no frame for it
C30_Witness ==
  \E i \in Instances, s \in SynthIds :
    /\ moduleInitialized[i]
    /\ s \in activeConnections[i]
    /\ kvNotification # NoRec
    /\ NotificationIsStale(kvNotification, now)
    /\ lastProcessedNotificationId[i] = kvNotification.notificationId
    /\ \A k \in 1..Len(received[s]) :
         received[s][k].nid # kvNotification.notificationId

\* the handlers the reaper may be called from: controller-connections and
\* the timer set by controller-activate
SweepTriggers == {"controller-connections", "controller-activate timer"}

\* C27: the reaper deletes a ClientRecord only when it was called by the
\* handler of controller-connections or by the delayed sweep of
\* controller-activate; no other verb (controller-heartbeat in particular)
\* leads to the deletion of a synth's record. Violated: the handler of
\* controller-heartbeat calls cleanupInactiveClients, which is the reaper.
C27_SweepsOnlyFromReportsAndTimer ==
  \A r \in removed : r.by \in SweepTriggers

\* C23: an id for which registerConnection and then unregisterConnection
\* ran has left nothing behind: no ClientRecord, no entry in the controller
\* directory, no entry in the socket map or the controller set of any
\* instance, no polling timer, and nothing in the map of WebRTC reports that
\* its registration put there. What it caused to be sent to controllers
\* (received, kvMessages) may remain.
C23_UnregisterLeavesNoTrace ==
  \A c \in ClientIds : lastOp[c] = "unregister" =>
    /\ kvConnections[c] = NoRec
    /\ c \in RegistryControllers => kvControllers[c] = NoRec
    /\ \A i \in Instances :
         /\ c \notin activeConnections[i]
         /\ c \notin activeControllers[i]
         /\ c \notin pollingIntervals[i]
         /\ c \notin notOpen[i]
         /\ c \in RegistryControllers => activeWebRTCConnections[i][c] = {}

\* a synth and a controller were registered, refreshed and unregistered, and
\* the controller was told of the synth while both were registered
C23_Witness ==
  /\ \A c \in RelayIds : lastOp[c] = "unregister"
  /\ \E c \in ControllerIds : \E k \in 1..Len(received[c]) :
       received[c][k].type = "client-connected"

\* the step is the handler of a register frame of id c
RegisterHandled(c) == nextReg' # nextReg /\ handled'.id = c

\* C29: the handler of a synth's register frame sends the socket
\* registration-confirmed and then an active-controller frame that carries
\* what getActiveController() returned; the handler of a controller's
\* register frame sends registration-confirmed and then a client-list of
\* the synths that have a ClientRecord. Violated: with no ControllerRecord
\* stored the synth gets registration-confirmed and nothing else.
C29_RegisterReplies ==
  [][\A c \in ClientIds : RegisterHandled(c) =>
       LET sent == handled'.replies IN
       /\ Len(sent) = 2
       /\ sent[1].type = "registration-confirmed"
       /\ sent[1].id = c
       /\ IF isController(c)
          THEN /\ sent[2].type = "client-list"
               /\ {sent[2].clients[k].id : k \in 1..Len(sent[2].clients)} =
                    {d \in ClientIds : ~isController(d)
                                          /\ kvConnections'[d] # NoRec}
          ELSE /\ sent[2].type = "active-controller"
               /\ sent[2].controllerId = IdOf(kvActive)]_vars

\* the step is the handler of a frame of verb sent on the socket of c
FrameHandled(verb, c) ==
  handled'.n # handled.n /\ handled'.verb = verb /\ handled'.id = c

\* the synths that have an OPEN socket on some instance
AttachedSynths ==
  {s \in SynthIds : \E i \in Instances : s \in BroadcastTargets(i)}

\* the step sends the synth s one more frame, active-controller carrying id
SentActiveController(s, id) ==
  /\ Len(received'[s]) = Len(received[s]) + 1
  /\ received'[s][Len(received'[s])] = ActiveControllerFrame(id, 0)

\* C24: when the handler of controller-activate of a registered controller
\* has run, setActive(self) was performed: the ControllerRecord names the
\* controller, and every attached synth was sent an active-controller frame
\* with the controller's id. Violated: the handler writes no ControllerRecord
\* and reaches only the synths of its own instance.
C24_ActivateSetsActive ==
  [][\A c \in ControllerIds : FrameHandled("controller-activate", c) =>
       /\ kvActive' # NoRec
       /\ kvActive'.id \in {c, standardizeControllerId(c)}
       /\ \A s \in AttachedSynths :
            \/ SentActiveController(s, c)
            \/ SentActiveController(s, standardizeControllerId(c))]_vars

\* C25: when the handler of controller-deactivate of the controller that is
\* the leader has run, no ControllerRecord exists and every attached synth
\* was sent a null active-controller frame; when the sender is not the
\* leader, the ControllerRecord, the ChangeNotification and the frames sent
\* are as before. Violated: the handler of the leader broadcasts null and
\* leaves the ControllerRecord in place.
C25_DeactivateClearsLeadership ==
  [][\A c \in ControllerIds : FrameHandled("controller-deactivate", c) =>
       IF Live(kvActive, now) /\ kvActive.id = c
       THEN /\ kvActive' = NoRec
            /\ \A s \in AttachedSynths : SentActiveController(s, Null)
       ELSE UNCHANGED <<kvActive, kvNotification, received>>]_vars

\* the ids that have a ClientRecord
Registered(recs) == {c \in ClientIds : recs[c] # NoRec}

\* C28: the handler of a frame with an unknown verb or of a frame that is
\* not JSON closes no socket and changes neither the membership of the
\* registry (the ids with a ClientRecord, the controller directory, the
\* socket map, the controller set, the polling timers), nor a queue, nor
\* the leadership (ControllerRecord, ChangeNotification, lock), nor the map
\* of WebRTC reports, and nothing is sent; and a socket leaves the socket
\* map or stops being OPEN only in a step of unregisterConnection for its
\* id (no second socket registers an id here).
C28_DroppedFramesChangeNothing ==
  [][/\ \A c \in ClientIds :
          FrameHandled("unknown", c) \/ FrameHandled("malformed", c) =>
            /\ Registered(kvConnections') = Registered(kvConnections)
            /\ UNCHANGED <<kvControllers, activeConnections,
                           activeControllers, pollingIntervals, notOpen,
                           kvMessages, received, kvVars,
                           activeWebRTCConnections, sweep, sweepTimers,
                           removed>>
     /\ \A i \in Instances : \A c \in ClientIds :
          IsOpen(i, c) /\ ~IsOpen(i, c)' =>
            lastOp[c] = "register" /\ lastOp'[c] = "unregister"]_vars

\* a registered client sent a frame with an unknown verb, later than it
\* registered, while a ControllerRecord was stored: its record was refreshed
C28_Witness ==
  /\ handled.verb = "unknown"
  /\ handled.id \in activeConnections[handled.inst]
  /\ kvConnections[handled.id] # NoRec
  /\ kvConnections[handled.id].lastSeen = now
  /\ kvConnections[handled.id].connectionTimestamp < now
  /\ kvActive # NoRec

\* the register handler of socket s, which found the ClientRecord of its id
\* and closed the open socket o that held the id, has completed, and so has
\* the close handler of o; s is still open
ReplacementCompleted(s, o) ==
  /\ sock[s].replaced = o
  /\ sock[o].code = 1000
  /\ sock[s].existing # NoRec
  /\ sock[s].reg = "idle"
  /\ sock[s].state = "open"
  /\ sock[o].closing = "done"

\* C22: when a socket registers an id that has a local socket, that socket
\* is closed (with code 1000 if it was open); and once the register handler
\* and the close handler of the first socket have both completed, the KV
\* holds a ClientRecord of the id whose reconnectionCount is one more than
\* in the record the id had and whose connectionTimestamp is that record's.
\* Violated: a close handler that runs after the new record was written
\* deletes it (the subject of C35).
C22_ReplacementKeepsRecord ==
  \A s \in Sockets : \A o \in Sockets :
    /\ sock[s].replaced = o =>
         sock[o].state # "open" /\ sock[o].code \in {0, 1000}
    /\ ReplacementCompleted(s, o) =>
         LET rec == kvConnections[sock[s].id] IN
         /\ rec # NoRec
         /\ rec.reconnectionCount = sock[s].existing.reconnectionCount + 1
         /\ rec.connectionTimestamp = sock[s].existing.connectionTimestamp

\* C26: the id in the closure of a socket, once set by a register frame,
\* does not change, and the socket map of an instance never holds one
\* socket under two ids. Violated: every register frame assigns
\* clientId = message.id and adds activeConnections.set(id, socket).
C26_SocketBoundToOneId ==
  [][/\ \A s \in Sockets :
          sock[s].clientId # Null => sock'[s].clientId = sock[s].clientId
     /\ \A i \in Instances : \A c \in ClientIds : \A d \in ClientIds :
          c # d /\ socketOf'[i][c] # NoSocket =>
            socketOf'[i][c] # socketOf'[i][d]]_vars

\* socket s registered its id over the open socket o, which it closed; the
\* register handler of s and the close handler of o have both completed,
\* and s was not closed
ReplacedAndClosed(s, o) ==
  /\ sock[s].replaced = o
  /\ sock[o].code = 1000
  /\ sock[s].reg = "idle"
  /\ sock[s].state = "open"
  /\ sock[s].closing = "idle"
  /\ sock[o].closing = "done"

\* C35: when socket #2 has replaced socket #1 under an id, then after the
\* register handler of #2 and the close handler of #1 have completed, in
\* whatever order their steps ran, the id has a ClientRecord, the socket map
\* of the instance holds #2 under the id, and the polling timer of the id
\* is the one of #2. Violated: unregisterConnection deletes by id.
C35_CloseSparesNewSession ==
  \A s \in Sockets : \A o \in Sockets :
    ReplacedAndClosed(s, o) =>
      LET i == sock[s].inst
          c == sock[s].id
      IN /\ kvConnections[c] # NoRec
         /\ socketOf[i][c] = s
         /\ timerOf[i][c] = s

\* C38: every id in an instance's local socket map has a ClientRecord in the
\* KV, and so has every id with a polling timer; in particular after a
\* reaper sweep deleted a synth's record the synth is neither attached nor
\* polled. Violated: cleanupInactiveClients deletes the KV record only.
C38_AttachedHaveRecord ==
  \A i \in Instances :
    \A c \in activeConnections[i] \cup pollingIntervals[i] :
      kvConnections[c] # NoRec

\* C37: the map of WebRTC reports of an instance holds a (non-empty) entry
\* only for a controller that is registered on the instance: once the
\* controller has unregistered or its socket was closed the entry is gone,
\* and the synths it named are no longer held back from the reaper.
\* Violated: unregisterConnection never touches the map.
C37_ReportsOnlyOfRegistered ==
  \A i \in Instances : \A c \in RegistryControllers :
    activeWebRTCConnections[i][c] # {} => c \in activeConnections[i]

\* C31: an entry is written to the message queue only under the id of a
\* recipient that has a ClientRecord when it is written: no step adds a
\* queue entry for a target the registry does not know. Violated: the
\* relay queues for whatever message.target names.
C31_QueuedOnlyForKnown ==
  [][\A e \in kvMessages' \ kvMessages :
       kvConnections[e.target] # NoRec]_vars

\* the step is the handler of a heartbeat frame of id c on instance i
HeartbeatHandled(i, c) ==
  /\ handled' # handled
  /\ handled'.verb = "heartbeat"
  /\ handled'.inst = i
  /\ handled'.id = c

\* C32: the handler of a heartbeat frame changes nothing but lastSeen of
\* the sender's ClientRecord (connectionTimestamp, reconnectionCount,
\* lastReconnectTime, instanceId and the rest of the record are as before),
\* touches no other record, no directory entry and no in-memory map, and
\* sends the sender one heartbeat_ack.
C32_HeartbeatOnlyLastSeen ==
  [][\A i \in Instances : \A c \in ClientIds : HeartbeatHandled(i, c) =>
       /\ kvConnections' =
            [kvConnections EXCEPT ![c] =
               IF @ = NoRec THEN NoRec ELSE [@ EXCEPT !.lastSeen = now]]
       /\ handled'.replies = <<HeartbeatAck(now)>>
       /\ UNCHANGED <<kvControllers, kvMessages, activeConnections,
                      activeControllers, activeWebRTCConnections,
                      pollingIntervals, received, notOpen, kvVars>>]_vars

\* a heartbeat was handled for a client whose record is older than the
\* heartbeat and was registered over a prior record, while another client
\* has a record too
C32_Witness ==
  /\ handled.verb = "heartbeat"
  /\ kvConnections[handled.id] # NoRec
  /\ kvConnections[handled.id].lastSeen = now
  /\ kvConnections[handled.id].connectionTimestamp < now
  /\ kvConnections[handled.id].reconnectionCount > 0
  /\ \E d \in ClientIds \ {handled.id} : kvConnections[d] # NoRec

\* the client-list the handler of the last frame sent, if it sent one
ListedClients ==
  IF Len(handled.replies) = 2 /\ handled.replies[2].type = "client-list"
  THEN handled.replies[2].clients ELSE <<>>

\* e is the annotated entry the claim describes for the record rec of
\* synth id, given the socket map conns and the WebRTC reports of the
\* listing instance
ListedAs(e, id, rec, conns, reports) ==
  /\ e.id = id
  /\ e.lastSeen = rec.lastSeen
  /\ e.connectionTimestamp = rec.connectionTimestamp
  /\ e.reconnectionCount = rec.reconnectionCount
  /\ e.hasWebsocket = (id \in conns)
  /\ e.webRTCConnected = (\E d \in RegistryControllers : id \in reports[d])

\* C33: the list of synths made for a controller (here by the handler of
\* the controller's register frame) has exactly one entry for every
\* ClientRecord of a non-controller and none for a controller, each entry
\* saying whether the listing instance has a socket of the id and whether
\* the WebRTC report of some controller of that instance names it; and the
\* step that lists changes no ClientRecord but the registering
\* controller's own, no WebRTC report and no socket-map entry of another id.
C33_ListingIsExactAndPure ==
  [][\A i \in Instances : \A c \in RegistryControllers :
       (RegisterHandled(c) /\ handled'.inst = i) =>
         /\ Len(ListedClients') =
              Cardinality({id \in ClientIds : kvConnections'[id] # NoRec
                                               /\ ~isController(id)})
         /\ \A id \in ClientIds :
              (kvConnections'[id] # NoRec /\ ~isController(id)) =>
                \E k \in 1..Len(ListedClients') :
                  ListedAs(ListedClients'[k], id, kvConnections'[id],
                           activeConnections'[i],
                           activeWebRTCConnections'[i])
         /\ \A id \in ClientIds \ {c} :
              /\ kvConnections'[id] = kvConnections[id]
              /\ \A j \in Instances :
                   id \in activeConnections'[j] <=> id \in activeConnections[j]
         /\ UNCHANGED activeWebRTCConnections]_vars

\* a controller was sent a list that names a synth which another
\* controller of the instance reported and which has no socket there
C33_Witness ==
  /\ handled.verb = "register"
  /\ isController(handled.id)
  /\ \E k \in 1..Len(ListedClients) :
       /\ ListedClients[k].webRTCConnected
       /\ ~ListedClients[k].hasWebsocket
  /\ \E d \in RegistryControllers \ {handled.id} :
       activeWebRTCConnections[handled.inst][d] # {}

\* C34: every call of manager.ts getActiveController() returns, whatever
\* the stored record is (expired included): a handler that is inside the
\* call eventually is past it, and so a handler of setActive, clear or
\* forceReset, which begin with the call, eventually is. Violated: on an
\* expired record the call and clearActiveController call each other
\* without end.
C34_GetActiveReturns ==
  \A p \in Procs : (proc[p].pc = "ga") ~> (proc[p].pc # "ga")

\* C40: between requests, whenever the legacy lock record and a
\* ControllerRecord that is not expired both exist, the lock's userId is
\* the id of the ControllerRecord (what the health check of GET
\* /controller/lock reports as consistent), after any sequence of POST and
\* DELETE requests. Violated: POST writes the lock with the caller's id
\* after setActiveController rejected the caller's heartbeat.
C40_LockNamesLeader ==
  (AllFree /\ kvLock # NoRec /\ kvActive # NoRec /\ Live(kvActive, now))
    => kvLock.userId = kvActive.id

\* the step writes a ClientRecord under an id that had none
Recreated(c) == kvConnections[c] = NoRec /\ kvConnections'[c] # NoRec

\* the step is the kv.set of a registerConnection of id c
StoredByRegister(c) ==
  \E s \in Sockets :
    sock[s].reg = "set" /\ sock[s].id = c /\ sock'[s].reg = "attach"

\* C36: a ClientRecord that does not exist (it was deleted by unregister or
\* by the reaper, or was never written) is written only by a register: the
\* read-then-write lastSeen refresh of an inbound frame, whatever delete
\* runs between its read and its write, never writes the record back.
\* Violated: the refresh writes the record it read before the delete.
C36_OnlyRegisterCreates ==
  [][\A c \in ClientIds : Recreated(c) => StoredByRegister(c)]_vars

\* the ids the active-controller frames sent to synth s carried: those
\* broadcast to its socket and the one of the reply to its register
NamedControllers(s) ==
  {received[s][k].controllerId : k \in
     {j \in 1..Len(received[s]) :
        received[s][j].type = "active-controller"}}
  \cup {handled.replies[k].controllerId : k \in
     {j \in 1..Len(handled.replies) :
        /\ handled.id = s
        /\ handled.replies[j].type = "active-controller"}}

\* C39: the active-controller frames a synth gets name one controller by
\* one string: two frames whose ids are the same after the "controller-"
\* prefix is removed carry the same id, and a frame that names a controller
\* registered on a socket carries the id of that socket, which is what
\* controller-deactivate and controller-connections compare with.
\* Violated: controller-activate broadcasts the socket's id as it is, the
\* poller broadcasts the ControllerRecord's id without the prefix.
C39_OneFormOfControllerId ==
  \A s \in SynthIds :
    /\ \A a \in NamedControllers(s) \ {Null} :
         \A b \in NamedControllers(s) \ {Null} :
           standardizeControllerId(a) = standardizeControllerId(b) => a = b
    /\ \A a \in NamedControllers(s) \ {Null} : \A c \in ControllerIds :
         standardizeControllerId(a) = standardizeControllerId(c) => a = c

====
